---- MODULE Spec2Model ----
(***************************************************************************)
(* Field Geometry & Persistence Engine of react-pdf-editor.                *)
(*                                                                         *)
(* The module models three parts of the program as state machines:        *)
(*   - the Field Registry of PDFEditor.tsx (buildModeFields, selection,    *)
(*     mode, seeding from the document's existing fields);                 *)
(*   - the document-level listeners and timers that the gesture handlers   *)
(*     of BuildModeFieldRenderer install and remove;                       *)
(*   - document load / build-mode save with the assignment metadata that   *)
(*     travels in the document title.                                      *)
(* Strings that the program builds by concatenation (ids, names) are       *)
(* sequences of string tokens; NoField models null.                        *)
(***************************************************************************)
EXTENDS Integers, Sequences, FiniteSets, TLC

\* ------------------------------------------------------------------ bounds
\* Largest number of records the registry holds in a behaviour.
MaxFields == 2
\* Largest value of the millisecond clock read by Date.now().
MaxClock == 2
MaxPending == 2
MaxGestures == 2
MaxTouches == 2

\* onSaveAs executions in flight at once.
MaxExports == 2
\* Render tasks started in a behaviour.
MaxRenders == 4
\* Fingers on the page container at once.
MaxContacts == 3

\* --------------------------------------------------------- program constants
\* Math.max(20, ...) in resizeBuildModeField.
MinSize == 20

VARIABLES
    buildModeFields,   \* useState<BuildModeField[]>: the registry, in order
    selectedField,     \* useState<string | null>: the selection
    mode,              \* useState<PDFEditorMode>
    pagesReady,        \* useState<boolean>: pages and existing fields are loaded
    zoomLevel,         \* useState(6): index into zoomLevels (1-based here)
    clock,             \* last value returned by Date.now()
    extractedFieldAssignments, \* useRef: the map decoded from the title, or absent
    lastOp,            \* history: the handler that ran last, with its arguments
    src,               \* prop: the document the host asks the editor to show
    fieldAssignments,  \* prop: the caller-supplied assignment map, or absent
    pdfDoc,            \* useState<PDFDocumentProxy>: the loaded document, or none
    docReady,          \* useState<boolean>
    cleanupDoc,        \* pdfDoc as the load effect's cleanup closure holds it
    pending,           \* loadDocument calls in flight: the documents they load
    buildSaved,        \* the arguments of the last onBuildSave call, or none
    gestures,          \* document-level move/end listener pairs, as installed
    clickSuppressors,  \* capture-phase once-only click listeners on document
    longPressTimeout,  \* per field renderer, useRef: its timer, or 0 for null
    timers,            \* setTimeout timers neither fired nor cleared
    isDragging,        \* per field renderer, useState<boolean>
    isResizing,        \* per field renderer, useState<boolean>
    mouseDown,         \* the mouse button is held
    touches,           \* fingers on the screen
    gestureCount,      \* gesture starts so far
    pages,             \* useState<PDFPageAndFormFields[]>: the fields, with values
    activeParticipantId,   \* prop, or Undefined
    unassignedVisibility,  \* prop: "readonly" or "hidden"
    inputs,            \* DOM: per mounted input of an existing field, its
                       \* style.display and whether it is disabled
    closure,           \* the props the current renderPages callback closed over
    isSaving,          \* useState<boolean>
    exports,           \* onSaveAs executions in flight: what each closed over
    lastSave,          \* history: how the onSaveAs that settled in the last step ended
    renderTasks,       \* pdf.js render tasks started and not yet settled
    renderTasksRef,    \* PageThumbnails useRef: page number -> its render task
    renderedPagesRef,  \* PageThumbnails useRef: page numbers already rendered
    renderLoops,       \* PageThumbnails renderSequentially runs not yet finished
    isPinching,        \* useRef(false)
    lastPinchDistance, \* useRef(0): the reference distance, in px
    contactsChanged,   \* history: the number of contacts changed since the
                       \* last touchmove with two contacts
    usedIds            \* history: the ids the records of the registry have had

regVars == <<buildModeFields, selectedField, mode, pagesReady, zoomLevel, clock,
             extractedFieldAssignments, lastOp>>

loadVars == <<src, fieldAssignments, pdfDoc, docReady, cleanupDoc, pending,
              buildSaved>>

gestVars == <<gestures, clickSuppressors, longPressTimeout, timers, isDragging,
              isResizing, mouseDown, touches, gestureCount>>

editVars == <<pages, activeParticipantId, unassignedVisibility, inputs, closure>>

saveVars == <<isSaving, exports, lastSave>>

renderVars == <<renderTasks, renderTasksRef, renderedPagesRef, renderLoops>>

pinchVars == <<isPinching, lastPinchDistance, contactsChanged>>

vars == <<regVars, loadVars, gestVars, editVars, saveVars, renderVars, pinchVars,
          usedIds>>

NoField == <<>>

\* undefined, where a text (a sequence of tokens) may stand instead
Undefined == <<"undefined">>

\* The last handler and its arguments, in one shape for every handler.
Op(name, id, a, b) == [op |-> name, id |-> id, a |-> a, b |-> b]

Max(a, b) == IF a >= b THEN a ELSE b

Min(a, b) == IF a <= b THEN a ELSE b

\* ------------------------------------------------------------ field records
FieldTypes == {"text", "multiline", "checkbox", "dropdown", "radio", "signature"}

defaultDimensions ==
    [text      |-> [width |-> 115, height |-> 16],
     multiline |-> [width |-> 300, height |-> 80],
     checkbox  |-> [width |-> 16,  height |-> 16],
     dropdown  |-> [width |-> 115, height |-> 16],
     radio     |-> [width |-> 100, height |-> 16],
     signature |-> [width |-> 115, height |-> 16]]

\* `field_${Date.now()}_${Math.random().toString(36).substr(2, 9)}`
generateFieldId(now, rnd) == <<"field", ToString(now), ToString(rnd)>>

NewFieldOfTextSize(type, x, y, pageNumber, now, rnd) ==
    [id         |-> generateFieldId(now, rnd),
     type       |-> type,
     name       |-> <<type>> \o generateFieldId(now, rnd),
     x          |-> x,
     y          |-> y,
     width      |-> defaultDimensions.text.width,
     height     |-> defaultDimensions.text.height,
     page       |-> pageNumber,
     origin     |-> "new",
     originalId |-> "none",
     properties |-> [placeholder |-> IF type = "text" THEN <<"Enter text...">>
                                                        ELSE <<"undefined">>,
                     required    |-> FALSE,
                     fontSize    |-> 12]]

\* The record addBuildModeField builds.
NewField(type, x, y, pageNumber, now, rnd) ==
    [id         |-> generateFieldId(now, rnd),
     type       |-> type,
     name       |-> <<type>> \o generateFieldId(now, rnd),
     x          |-> x,
     y          |-> y,
     width      |-> defaultDimensions[type].width,
     height     |-> defaultDimensions[type].height,
     page       |-> pageNumber,
     origin     |-> "new",
     originalId |-> "none",
     properties |-> [placeholder |-> IF type = "text" THEN <<"Enter text...">>
                                                        ELSE <<"undefined">>,
                     required    |-> FALSE,
                     fontSize    |-> 12]]

\* The loaded document as pdf.js reports it: one page (its height in points)
\* and the existing form fields on it; rect is [llx, lly, urx, ury] in
\* document-native space.
Document ==
    [pageHeight |-> 792,
     fields |-> << [id |-> "7R", name |-> <<"rent">>, type |-> "text",
                    multiline |-> FALSE, page |-> 0,
                    rect |-> <<10, 700, 110, 730>>, value |-> Undefined] >>]

PageHeight == Document.pageHeight

ExistingFields == Document.fields


\* zoomLevels, in percent (0.67 is 67).
zoomLevels == <<67, 75, 80, 90, 100, 110, 125, 150, 175, 200, 250, 300, 350, 400>>

\* The index (from 1) of 1.0 in zoomLevels: the behaviours below start once the
\* user has zoomed out from useState(6), which is 1.25, to actual size.
ActualSize == 5

\* extractedFieldAssignments.current: null, or the value JSON.parse returned.
NoAssignments == [set |-> FALSE, map |-> <<>>]

\* extractedFieldAssignments.current?.[field.name] || []
ExtractedAssigneesOf(extracted, name) ==
    IF extracted.set /\ name \in DOMAIN extracted.map
    THEN extracted.map[name] ELSE <<>>

\* ------------------------------------------------- registry state updaters
\* setBuildModeFields((prev) => [...prev, newField])
appendField(prev, newField) == Append(prev, newField)

\* Mutant of deleteBuildModeField: the record at the head goes, whatever its id.
deleteFirstField(prev, fieldId) ==
    IF fieldId \in {prev[i].id : i \in DOMAIN prev} THEN Tail(prev) ELSE prev

\* prev.filter((f) => f.id !== fieldId)
deleteBuildModeField(prev, fieldId) ==
    SelectSeq(prev, LAMBDA f : f.id # fieldId)

\* Mutant of moveBuildModeField: the coordinates are stored unclamped.
moveWithoutClamp(prev, fieldId, x, y) ==
    [i \in DOMAIN prev |->
        IF prev[i].id = fieldId THEN [prev[i] EXCEPT !.x = x, !.y = y] ELSE prev[i]]

\* prev.map(field => field.id === fieldId
\*            ? {...field, x: Math.max(0, x), y: Math.max(0, y)} : field)
moveBuildModeField(prev, fieldId, x, y) ==
    [i \in DOMAIN prev |->
        IF prev[i].id = fieldId
        THEN [prev[i] EXCEPT !.x = Max(0, x), !.y = Max(0, y)]
        ELSE prev[i]]

\* prev.map(field => field.id === fieldId
\*   ? {...field, width: Math.max(20, width), height: Math.max(20, height)} : field)
resizeBuildModeField(prev, fieldId, width, height) ==
    [i \in DOMAIN prev |->
        IF prev[i].id = fieldId
        THEN [prev[i] EXCEPT !.width = Max(MinSize, width),
                             !.height = Max(MinSize, height)]
        ELSE prev[i]]

\* Mutant of SpreadMerge: the properties sub-record is merged key by key.
SpreadMergeDeep(field, updates) ==
    [k \in DOMAIN field \cup DOMAIN updates |->
        IF k \notin DOMAIN updates THEN field[k]
        ELSE IF k = "properties" /\ k \in DOMAIN field
        THEN [q \in DOMAIN field[k] \cup DOMAIN updates[k] |->
                 IF q \in DOMAIN updates[k] THEN updates[k][q] ELSE field[k][q]]
        ELSE updates[k]]

\* {...field, ...updates}: every key of updates replaces the field's value,
\* the properties sub-record as a whole like any other key.
SpreadMerge(field, updates) ==
    [k \in DOMAIN field \cup DOMAIN updates |->
        IF k \in DOMAIN updates THEN updates[k] ELSE field[k]]

\* prev.map(field => field.id === fieldId ? {...field, ...updates} : field)
updateBuildModeField(prev, fieldId, updates) ==
    [i \in DOMAIN prev |->
        IF prev[i].id = fieldId THEN SpreadMerge(prev[i], updates) ELSE prev[i]]

\* The build type a pdf.js field type maps to in the seeding effect.
MappedType(field) ==
    IF field.type = "checkbox" THEN "checkbox"
    ELSE IF field.type = "combobox" THEN "dropdown"
    ELSE IF field.type = "radio" THEN "radio"
    ELSE IF field.type = "list" THEN "dropdown"
    ELSE IF field.type = "text" /\ field.multiline THEN "multiline"
    ELSE "text"

\* The record the seeding effect derives from one existing field.
SeededField(field, pageHeight, extracted) ==
    [id         |-> <<"existing", field.id>>,
     type       |-> MappedType(field),
     name       |-> field.name,
     x          |-> field.rect[1],
     y          |-> pageHeight - field.rect[4],
     width      |-> field.rect[3] - field.rect[1],
     height     |-> field.rect[4] - field.rect[2],
     page       |-> field.page,
     origin     |-> "existing",
     originalId |-> field.id,
     properties |-> [placeholder  |-> IF field.type = "text" THEN field.name
                                                               ELSE <<"undefined">>,
                     required     |-> FALSE,
                     defaultValue |-> field.value,
                     fontSize     |-> 12,
                     assignees    |-> ExtractedAssigneesOf(extracted, field.name)]]

\* Mutant of SeedEffect: the "only initialize once" guard is missing.
SeedEffectWithoutOnceGuard(prev, m, ready, extracted) ==
    IF m # "build" THEN prev
    ELSE IF ~ready THEN prev
    ELSE [i \in DOMAIN ExistingFields |->
             SeededField(ExistingFields[i], PageHeight, extracted)]

\* The seeding effect (useEffect on [mode, pagesReady]): the registry it leaves.
SeedEffect(prev, m, ready, extracted) ==
    IF m # "build" THEN prev
    ELSE IF ~ready THEN prev
    ELSE IF Len(prev) > 0 THEN prev
    ELSE LET initial == [i \in DOMAIN ExistingFields |->
                            SeededField(ExistingFields[i], PageHeight, extracted)]
         IN  IF Len(initial) > 0 THEN initial ELSE prev


\* ----------------------------------------------------------- export geometry
\* Math.round of a number held as a count of 1/unit steps (unit = 1: whole
\* numbers): the nearest whole number, a half going up.
Round(v, unit) == ((2 * v + unit) \div (2 * unit)) * unit

\* Mutant of ExportRect: y is not flipped to the bottom-left origin.
ExportRectFromTop(field, pageHeight, unit) ==
    LET pdfX == Round(field.x, unit)
        pdfY == Round(field.y, unit)
        pdfWidth == Round(field.width, unit)
        pdfHeight == Round(field.height, unit)
    IN  <<pdfX, pdfY, pdfX + pdfWidth, pdfY + pdfHeight>>

\* The rectangle [llx, lly, urx, ury] of the widget onSaveAs adds for a
\* record: addToPage at (pdfX, pdfY) with pdfWidth x pdfHeight.
ExportRect(field, pageHeight, unit) ==
    LET pdfX == Round(field.x, unit)
        pdfY == Round(pageHeight - field.y - field.height, unit)
        pdfWidth == Round(field.width, unit)
        pdfHeight == Round(field.height, unit)
    IN  <<pdfX, pdfY, pdfX + pdfWidth, pdfY + pdfHeight>>

\* The field type pdf.js reports for a field onSaveAs created for a record of
\* the given type, and whether it reports it as multiline.
CreatedType(type) ==
    CASE type = "checkbox" -> "checkbox"
      [] type = "dropdown" -> "combobox"
      [] type = "radio" -> "radio"
      [] OTHER -> "text"

\* The field onSaveAs creates for a record, as pdf.js reports it on a reload;
\* ref is the object id the new field gets.
CreatedField(field, pageHeight, unit, ref) ==
    [id |-> ref, name |-> field.name, type |-> CreatedType(field.type),
     multiline |-> field.type = "multiline", page |-> field.page,
     rect |-> ExportRect(field, pageHeight, unit), value |-> Undefined]

\* --------------------------------------------------------------- documents
\* A document as the load reads it: whether getDocument resolves for it, and
\* its title (NoTitle: none).
NoTitle == <<>>
Doc(loads, title) == [loads |-> loads, title |-> title]
NoDoc == Doc(FALSE, <<"undefined">>)

\* The state of the load variables once a document without a title is loaded
\* and nothing has been saved.
LoadedUntitled ==
    /\ src = Doc(TRUE, NoTitle)
    /\ fieldAssignments = NoAssignments
    /\ pdfDoc = Doc(TRUE, NoTitle)
    /\ docReady = TRUE
    /\ cleanupDoc = NoDoc
    /\ pending = <<>>
    /\ buildSaved = [saved |-> FALSE, pdf |-> NoDoc, fieldAssignmentsMap |-> <<>>]

\* The gesture variables while no field renderer has been touched.
GestureIdle ==
    /\ gestures = <<>>
    /\ clickSuppressors = 0
    /\ longPressTimeout = <<>>
    /\ timers = {}
    /\ isDragging = <<>>
    /\ isResizing = <<>>
    /\ mouseDown = FALSE
    /\ touches = 0
    /\ gestureCount = 0

\* No export has been started.
NoSave == [outcome |-> "none"]

SaveIdle ==
    /\ isSaving = FALSE
    /\ exports = <<>>
    /\ lastSave = NoSave

\* Nothing has been drawn yet.
RenderIdle ==
    /\ renderTasks = <<>>
    /\ renderTasksRef = <<>>
    /\ renderedPagesRef = {}
    /\ renderLoops = <<>>

\* No pinch has been tracked.
PinchIdle ==
    /\ isPinching = FALSE
    /\ lastPinchDistance = 0
    /\ contactsChanged = FALSE

\* ------------------------------------------------------ edit-mode inputs
NoPages == [set |-> FALSE, fields |-> <<>>]

\* What loadFormFieldsAndPages stores: the fields of the document's page.
LoadedPages == [set |-> TRUE, fields |-> ExistingFields]

FreshInput == [display |-> "", disabled |-> FALSE]

\* The inputs React has mounted for the existing fields: none in build mode
\* and none while the editor renders nothing.
Mounted(m, shown, pg) ==
    [id \in {pg.fields[i].id : i \in {j \in DOMAIN pg.fields : m # "build" /\ shown}}
        |-> FreshInput]

\* The props a renderPages callback created now closes over.
Snapshot(m, participant, visibility, assignments) ==
    [mode |-> m, activeParticipantId |-> participant,
     unassignedVisibility |-> visibility, fieldAssignments |-> assignments]

\* A participant id that is neither undefined nor the empty string.
Truthy(participant) == participant # Undefined /\ participant # <<>>

\* assignedIds ? assignedIds.includes(participant) : true
IsAssigned(effective, name, participant) ==
    IF effective.set /\ name \in DOMAIN effective.map
    THEN \E k \in DOMAIN effective.map[name] : effective.map[name][k] = participant
    ELSE TRUE

\* The inputs after the enforcement block of renderPages has run over them
\* with the props in closure c and the ref's map as it is now.
Enforce(c, extracted, pg, ins) ==
    [id \in DOMAIN ins |->
        LET field == pg.fields[CHOOSE i \in DOMAIN pg.fields : pg.fields[i].id = id]
            effective == IF extracted.set THEN extracted ELSE c.fieldAssignments
        IN  IF c.mode = "edit" /\ Truthy(c.activeParticipantId)
            THEN IF ~IsAssigned(effective, field.name, c.activeParticipantId)
                 THEN IF c.unassignedVisibility = "hidden"
                      THEN [ins[id] EXCEPT !.display = "none"]
                      ELSE [ins[id] EXCEPT !.disabled = TRUE]
                 ELSE FreshInput
            ELSE ins[id]]

\* The edit variables of an editor whose host passes neither an active
\* participant nor a visibility policy.
EditIdle ==
    /\ pages = IF pagesReady THEN LoadedPages ELSE NoPages
    /\ activeParticipantId = Undefined
    /\ unassignedVisibility = "readonly"
    /\ inputs = Mounted(mode, docReady /\ pagesReady, pages)
    /\ closure = Snapshot(mode, Undefined, "readonly", fieldAssignments)

\* ------------------------------------------------------------ registry: UI
FieldIds(fields) == {fields[i].id : i \in DOMAIN fields}

\* buildModeFields.find((f) => f.id === fieldId): the first record with the id.
FindField(fields, fieldId) ==
    fields[CHOOSE i \in DOMAIN fields :
              /\ fields[i].id = fieldId
              /\ \A j \in DOMAIN fields : fields[j].id = fieldId => i <= j]

\* The editor renders its pages, fields and panels only when the pages are ready.
Rendered == pagesReady

\* handleDrop: a field type dropped at viewport offset (relativeX, relativeY) of
\* the page's canvas; the offsets are divided by the zoom factor.
HandleDrop(type, relativeX, relativeY, pageNumber, now, rnd) ==
    /\ Rendered /\ mode = "build"
    /\ Len(buildModeFields) < MaxFields
    /\ now >= clock /\ now <= MaxClock
    /\ LET pdfX == (relativeX * 100) \div zoomLevels[zoomLevel]
           pdfY == (relativeY * 100) \div zoomLevels[zoomLevel]
           newField == NewField(type, pdfX, pdfY, pageNumber - 1, now, rnd)
       IN  /\ buildModeFields' = appendField(buildModeFields, newField)
           /\ selectedField' = newField.id
           /\ lastOp' = Op("add", newField.id, pdfX, pdfY)
    /\ clock' = now
    /\ UNCHANGED <<mode, pagesReady, zoomLevel, extractedFieldAssignments>>

\* onMove(fieldId, x, y) as the renderer's handlers call it.
MoveField(fieldId, x, y) ==
    /\ Rendered /\ mode = "build"
    /\ buildModeFields' = moveBuildModeField(buildModeFields, fieldId, x, y)
    /\ lastOp' = Op("move", fieldId, x, y)
    /\ UNCHANGED <<selectedField, mode, pagesReady, zoomLevel, clock,
                   extractedFieldAssignments>>

\* onResize(fieldId, width, height) as the renderer's handlers call it.
ResizeField(fieldId, width, height) ==
    /\ Rendered /\ mode = "build"
    /\ buildModeFields' = resizeBuildModeField(buildModeFields, fieldId, width, height)
    /\ lastOp' = Op("resize", fieldId, width, height)
    /\ UNCHANGED <<selectedField, mode, pagesReady, zoomLevel, clock,
                   extractedFieldAssignments>>

\* PropertiesPanel.handleSizeChange(dimension, value): value is parseInt's
\* result; the panel shows the selected record (selectedFieldData).
HandleSizeChange(dimension, numValue) ==
    /\ Rendered /\ mode = "build"
    /\ selectedField \in FieldIds(buildModeFields)
    /\ buildModeFields' =
          IF numValue > 0
          THEN updateBuildModeField(buildModeFields, selectedField,
                                    IF dimension = "width"
                                    THEN [width |-> numValue]
                                    ELSE [height |-> numValue])
          ELSE buildModeFields
    /\ lastOp' = Op("size", selectedField, IF dimension = "width" THEN 0 ELSE 1,
                    numValue)
    /\ UNCHANGED <<selectedField, mode, pagesReady, zoomLevel, clock,
                   extractedFieldAssignments>>

\* onDelete(fieldId): deleteBuildModeField with the selection it closes over.
DeleteField(fieldId) ==
    /\ Rendered /\ mode = "build"
    /\ buildModeFields' = deleteBuildModeField(buildModeFields, fieldId)
    /\ selectedField' = IF selectedField = fieldId THEN NoField ELSE selectedField
    /\ lastOp' = Op("delete", fieldId, IF selectedField = fieldId THEN 1 ELSE 0, 0)
    /\ UNCHANGED <<mode, pagesReady, zoomLevel, clock, extractedFieldAssignments>>

\* duplicateField(fieldId), from the context toolbar of the selected field.
DuplicateField(now) ==
    /\ Rendered /\ mode = "build"
    /\ selectedField # NoField
    /\ Len(buildModeFields) < MaxFields
    /\ now >= clock /\ now <= MaxClock
    /\ IF selectedField \in FieldIds(buildModeFields)
       THEN LET field == FindField(buildModeFields, selectedField)
                newField == [field EXCEPT !.id = <<field.type, ToString(now)>>,
                                          !.x = field.x + 20,
                                          !.y = field.y + 20,
                                          !.name = field.name \o <<"copy">>]
            IN  /\ buildModeFields' = appendField(buildModeFields, newField)
                /\ selectedField' = newField.id
       ELSE UNCHANGED <<buildModeFields, selectedField>>
    /\ lastOp' = Op("duplicate", selectedField, 0, 0)
    /\ clock' = now
    /\ UNCHANGED <<mode, pagesReady, zoomLevel, extractedFieldAssignments>>

\* handleFieldSelect(fieldId), from a click on a rendered field.
SelectField(fieldId) ==
    /\ Rendered /\ mode = "build"
    /\ fieldId \in FieldIds(buildModeFields)
    /\ selectedField' = fieldId
    /\ lastOp' = Op("select", fieldId, 0, 0)
    /\ UNCHANGED <<buildModeFields, mode, pagesReady, zoomLevel, clock,
                   extractedFieldAssignments>>

\* handleCanvasClick
CanvasClick ==
    /\ Rendered
    /\ selectedField' = NoField
    /\ lastOp' = Op("canvasClick", NoField, 0, 0)
    /\ UNCHANGED <<buildModeFields, mode, pagesReady, zoomLevel, clock,
                   extractedFieldAssignments>>

\* handleModeChange(newMode), followed by the seeding effect, which runs
\* because mode changed.
HandleModeChange(newMode) ==
    /\ Rendered
    /\ newMode # mode
    /\ mode' = newMode
    /\ buildModeFields' = SeedEffect(buildModeFields, newMode, pagesReady,
                                     extractedFieldAssignments)
    /\ lastOp' = Op("modeChange", NoField, 0, 0)
    /\ inputs' = IF newMode = "build" \/ mode = "build"
                 THEN Mounted(newMode, TRUE, pages)
                 ELSE inputs
    /\ UNCHANGED <<selectedField, pagesReady, zoomLevel, clock,
                   extractedFieldAssignments, pages, activeParticipantId,
                   unassignedVisibility, closure>>

\* loadFormFieldsAndPages, for the first document or after src changed:
\* setPagesReady(false) ... setPagesReady(true); nothing is rendered in
\* between, and the seeding effect runs because pagesReady changed.
PagesLoaded ==
    /\ docReady /\ pdfDoc # NoDoc
    /\ pagesReady' = TRUE
    /\ buildModeFields' = SeedEffect(buildModeFields, mode, TRUE,
                                     extractedFieldAssignments)
    /\ lastOp' = Op("pagesLoaded", NoField, 0, 0)
    /\ pages' = LoadedPages
    /\ closure' = Snapshot(mode, activeParticipantId, unassignedVisibility,
                           fieldAssignments)
    /\ inputs' = Enforce(closure', extractedFieldAssignments, pages',
                         Mounted(mode, TRUE, pages'))
    /\ UNCHANGED <<selectedField, mode, zoomLevel, clock,
                   extractedFieldAssignments, activeParticipantId,
                   unassignedVisibility>>

\* ------------------------------------------------- specification: registry
UnknownId == <<"field", "0", "0">>

DropPoints == {<<50, 50>>}
MoveTargets == {<<-5, 20>>}
ResizeTargets == {<<10, 30>>}
SizeInputs == {0, 5}
Modes == {"build", "edit", "view"}

Init ==
    /\ buildModeFields = <<>>
    /\ selectedField = NoField
    /\ mode \in {"build", "edit"}
    /\ pagesReady = FALSE
    /\ zoomLevel = ActualSize
    /\ clock = 0
    /\ extractedFieldAssignments = NoAssignments
    /\ lastOp = Op("init", NoField, 0, 0)
    /\ LoadedUntitled
    /\ GestureIdle
    /\ SaveIdle
    /\ RenderIdle
    /\ PinchIdle
    /\ usedIds = {buildModeFields[i].id : i \in DOMAIN buildModeFields}
    /\ EditIdle

RegistryNext ==
    \/ \E t \in {"text"}, p \in DropPoints :
          HandleDrop(t, p[1], p[2], 1, clock + 1, 0)
    \/ \E id \in FieldIds(buildModeFields) \cup {UnknownId}, p \in MoveTargets :
          MoveField(id, p[1], p[2])
    \/ \E id \in FieldIds(buildModeFields), s \in ResizeTargets :
          ResizeField(id, s[1], s[2])
    \/ \E d \in {"width"}, v \in SizeInputs : HandleSizeChange(d, v)
    \/ \E id \in FieldIds(buildModeFields) : DeleteField(id)
    \/ DuplicateField(clock + 1)
    \/ \E id \in FieldIds(buildModeFields) : SelectField(id)
    \/ CanvasClick

Next ==
  /\ UNCHANGED <<loadVars, gestVars, saveVars, renderVars, pinchVars, usedIds>>
  /\
    \/ PagesLoaded
    \/ \E m \in {"build", "edit"} : HandleModeChange(m)
    \/ (RegistryNext /\ UNCHANGED editVars)

Spec == Init /\ [][Next]_vars


\* ------------------------------------------------- properties panel and update
\* {...selectedField.properties, [key]: value}
PropertiesWith(properties, key, value) ==
    [k \in DOMAIN properties \cup {key} |->
        IF k = key THEN value ELSE properties[k]]

\* selectedFieldData: the selected record, which the panel's handlers close over.
SelectedFieldData == FindField(buildModeFields, selectedField)

PanelShown ==
    /\ Rendered /\ mode = "build"
    /\ selectedField \in FieldIds(buildModeFields)

PropertyKeys == <<"placeholder", "required", "assignees">>

\* A panel handler's call onUpdateField(selectedField.id, {properties: {...}}).
PanelSetsProperty(keyIndex, value) ==
    /\ buildModeFields' =
          updateBuildModeField(buildModeFields, selectedField,
              [properties |-> PropertiesWith(SelectedFieldData.properties,
                                             PropertyKeys[keyIndex], value)])
    /\ lastOp' = Op("setProperty", selectedField, keyIndex, 0)
    /\ UNCHANGED <<selectedField, mode, pagesReady, zoomLevel, clock,
                   extractedFieldAssignments>>

\* PropertiesPanel.handlePlaceholderChange: the input is rendered for text and
\* multiline fields.
HandlePlaceholderChange(value) ==
    /\ PanelShown
    /\ SelectedFieldData.type \in {"text", "multiline"}
    /\ PanelSetsProperty(1, value)

\* PropertiesPanel.handleRequiredChange: the checkbox shows
\* properties.required || false and reports the toggled value.
HandleRequiredChange ==
    /\ PanelShown
    /\ LET properties == SelectedFieldData.properties
           shown == IF "required" \in DOMAIN properties
                    THEN properties.required ELSE FALSE
       IN  PanelSetsProperty(2, ~shown)

\* PropertiesPanel.handleAssignmentChange(participantId, checked): the
\* participant's checkbox shows whether it is among the assignees and reports
\* the toggled value.
HandleAssignmentChange(participantId) ==
    /\ PanelShown
    /\ LET properties == SelectedFieldData.properties
           currentAssignments == IF "assignees" \in DOMAIN properties
                                 THEN properties.assignees ELSE <<>>
           checked == \A i \in DOMAIN currentAssignments :
                          currentAssignments[i] # participantId
           newAssignments ==
               IF checked THEN Append(currentAssignments, participantId)
               ELSE SelectSeq(currentAssignments, LAMBDA id : id # participantId)
       IN  PanelSetsProperty(3, newAssignments)

\* PropertiesPanel.handleNameChange
HandleNameChange(name) ==
    /\ PanelShown
    /\ buildModeFields' =
          updateBuildModeField(buildModeFields, selectedField, [name |-> name])
    /\ lastOp' = Op("rename", selectedField, 0, 0)
    /\ UNCHANGED <<selectedField, mode, pagesReady, zoomLevel, clock,
                   extractedFieldAssignments>>

\* The partial records update(id, partial) is applied to.
Partials ==
    << [name |-> <<"rent">>],
       [properties |-> [required |-> TRUE]],
       [width |-> 40, properties |-> [assignees |-> << <<"2">> >>]],
       [properties |-> [placeholder |-> <<"Amount">>, required |-> TRUE,
                        fontSize |-> 14]] >>

\* update(id, partial): onUpdateField(fieldId, updates) = updateBuildModeField.
UpdateField(fieldId, n) ==
    /\ Rendered /\ mode = "build"
    /\ buildModeFields' = updateBuildModeField(buildModeFields, fieldId, Partials[n])
    /\ lastOp' = Op("update", fieldId, n, 0)
    /\ UNCHANGED <<selectedField, mode, pagesReady, zoomLevel, clock,
                   extractedFieldAssignments>>

\* --------------------------------------- specification: properties and update
Participants == {<<"1">>, <<"2">>}

\* The registries update is applied to: the document's existing field as
\* seeded, or a text field dropped in this session; the record is selected and
\* the properties panel shows it.
InitProps ==
    /\ buildModeFields \in
          { << SeededField(ExistingFields[1], PageHeight, NoAssignments) >>,
            << NewField("text", 50, 50, 0, 1, 0) >> }
    /\ selectedField = buildModeFields[1].id
    /\ mode = "build"
    /\ pagesReady = TRUE
    /\ zoomLevel = ActualSize
    /\ clock = 1
    /\ extractedFieldAssignments = NoAssignments
    /\ lastOp = Op("init", NoField, 0, 0)
    /\ LoadedUntitled
    /\ GestureIdle
    /\ SaveIdle
    /\ RenderIdle
    /\ PinchIdle
    /\ usedIds = {buildModeFields[i].id : i \in DOMAIN buildModeFields}
    /\ EditIdle

NextProps ==
  /\ UNCHANGED <<loadVars, gestVars, editVars, saveVars, renderVars, pinchVars, usedIds>>
  /\
    \/ HandlePlaceholderChange(<<"Amount">>)
    \/ HandleRequiredChange
    \/ \E pid \in Participants : HandleAssignmentChange(pid)
    \/ HandleNameChange(<<"deposit">>)
    \/ \E id \in FieldIds(buildModeFields) \cup {UnknownId},
          n \in DOMAIN Partials : UpdateField(id, n)

SpecProps == InitProps /\ [][NextProps]_vars

\* ------------------------------------------- assignment metadata in the title
\* Text is a sequence of tokens: a token is one character that JSON treats
\* specially (quote, backslash, newline, a structural character) or a run of
\* ordinary characters.
Quote == "\""
Backslash == "\\"
Newline == "\n"

\* "REACT_PDF_EDITOR_ASSIGNMENTS:" as one leading token of a title.
Prefix == "REACT_PDF_EDITOR_ASSIGNMENTS:"

RECURSIVE Flatten(_)
\* The concatenation of a sequence of texts.
Flatten(texts) ==
    IF texts = <<>> THEN <<>> ELSE Head(texts) \o Flatten(Tail(texts))

RECURSIVE Join(_, _)
\* Array.prototype.join for texts.
Join(texts, sep) ==
    IF texts = <<>> THEN <<>>
    ELSE IF Len(texts) = 1 THEN texts[1]
    ELSE texts[1] \o sep \o Join(Tail(texts), sep)

\* Mutant of EscapeToken: a backslash is written as it is.
EscapeTokenKeepingBackslash(c) ==
    IF c = Quote THEN <<Backslash, Quote>>
    ELSE IF c = Newline THEN <<Backslash, "n">>
    ELSE <<c>>

\* JSON.stringify's escape of one character of a string.
EscapeToken(c) ==
    IF c = Quote THEN <<Backslash, Quote>>
    ELSE IF c = Backslash THEN <<Backslash, Backslash>>
    ELSE IF c = Newline THEN <<Backslash, "n">>
    ELSE <<c>>

\* JSON.stringify of a string.
StringifyString(str) ==
    <<Quote>> \o Flatten([i \in DOMAIN str |-> EscapeToken(str[i])]) \o <<Quote>>

\* JSON.stringify of a string[].
StringifyList(list) ==
    <<"[">> \o Join([i \in DOMAIN list |-> StringifyString(list[i])], <<",">>)
            \o <<"]">>

\* JSON.stringify of a Record<string, string[]>, given as its entries
\* <<key, list>> in property order.
StringifyMap(entries) ==
    <<"{">> \o Join([i \in DOMAIN entries |->
                        StringifyString(entries[i][1]) \o <<":">>
                           \o StringifyList(entries[i][2])], <<",">>)
            \o <<"}">>

\* A parse step's result: the value read and the position after it.
Parsed(val, next) == [ok |-> TRUE, val |-> val, next |-> next]
ParseError == [ok |-> FALSE, val |-> <<>>, next |-> 0]

RECURSIVE ScanString(_, _, _)
\* JSON.parse inside a string literal, from position j, acc read so far.
ScanString(t, j, acc) ==
    IF j > Len(t) THEN ParseError
    ELSE IF t[j] = Quote THEN Parsed(acc, j + 1)
    ELSE IF t[j] = Newline THEN ParseError
    ELSE IF t[j] = Backslash
    THEN IF j + 1 > Len(t) THEN ParseError
         ELSE IF t[j + 1] \in {Quote, Backslash}
         THEN ScanString(t, j + 2, Append(acc, t[j + 1]))
         ELSE IF t[j + 1] = "n" THEN ScanString(t, j + 2, Append(acc, Newline))
         ELSE ParseError
    ELSE ScanString(t, j + 1, Append(acc, t[j]))

\* JSON.parse of a string literal at position i.
ParseString(t, i) ==
    IF i <= Len(t) /\ t[i] = Quote THEN ScanString(t, i + 1, <<>>) ELSE ParseError

RECURSIVE ParseListItems(_, _, _)
\* The items of an array after its first, from position i.
ParseListItems(t, i, acc) ==
    IF i > Len(t) THEN ParseError
    ELSE IF t[i] = "]" THEN Parsed(acc, i + 1)
    ELSE IF t[i] = ","
    THEN LET item == ParseString(t, i + 1)
         IN  IF item.ok THEN ParseListItems(t, item.next, Append(acc, item.val))
             ELSE ParseError
    ELSE ParseError

\* JSON.parse of an array of strings at position i.
ParseList(t, i) ==
    IF i > Len(t) \/ t[i] # "[" THEN ParseError
    ELSE IF i + 1 <= Len(t) /\ t[i + 1] = "]" THEN Parsed(<<>>, i + 2)
    ELSE LET item == ParseString(t, i + 1)
         IN  IF item.ok THEN ParseListItems(t, item.next, <<item.val>>)
             ELSE ParseError

\* JSON.parse of one "key":[...] member at position i.
ParseMember(t, i) ==
    LET key == ParseString(t, i)
    IN  IF ~key.ok THEN ParseError
        ELSE IF key.next > Len(t) \/ t[key.next] # ":" THEN ParseError
        ELSE LET list == ParseList(t, key.next + 1)
             IN  IF list.ok THEN Parsed(<<key.val, list.val>>, list.next)
                 ELSE ParseError

RECURSIVE ParseMembers(_, _, _)
\* The members of an object after its first, from position i.
ParseMembers(t, i, acc) ==
    IF i > Len(t) THEN ParseError
    ELSE IF t[i] = "}" THEN Parsed(acc, i + 1)
    ELSE IF t[i] = ","
    THEN LET member == ParseMember(t, i + 1)
         IN  IF member.ok THEN ParseMembers(t, member.next, Append(acc, member.val))
             ELSE ParseError
    ELSE ParseError

\* JSON.parse of a text holding an object of string arrays: its entries in
\* order, or an error (a SyntaxError) when the text is not wholly such an
\* object.
ParseMap(t) ==
    IF Len(t) < 2 \/ t[1] # "{" THEN ParseError
    ELSE LET body == IF t[2] = "}" THEN Parsed(<<>>, 3)
                     ELSE LET member == ParseMember(t, 2)
                          IN  IF member.ok
                              THEN ParseMembers(t, member.next, <<member.val>>)
                              ELSE ParseError
         IN  IF body.ok /\ body.next = Len(t) + 1 THEN body ELSE ParseError

\* The object a sequence of entries denotes: a later entry of a key wins.
MapOf(entries) ==
    [k \in {entries[i][1] : i \in DOMAIN entries} |->
        entries[CHOOSE i \in DOMAIN entries :
                   /\ entries[i][1] = k
                   /\ \A j \in DOMAIN entries : entries[j][1] = k => j <= i][2]]

\* obj[key] = value on the own entries of an object literal: an existing key
\* keeps its place; the key __proto__ reaches the prototype setter and creates
\* no entry.
ProtoKey == <<"__proto__">>

PutEntry(entries, key, value) ==
    IF key = ProtoKey THEN entries
    ELSE IF \E i \in DOMAIN entries : entries[i][1] = key
    THEN [i \in DOMAIN entries |->
             IF entries[i][1] = key THEN <<key, value>> ELSE entries[i]]
    ELSE Append(entries, <<key, value>>)

RECURSIVE AssignmentEntries(_, _)
\* fieldAssignmentsMap as onSaveAs builds it: buildModeFields.forEach(field =>
\*   if (assignees && assignees.length > 0) map[field.name] = assignees),
\* acc being the entries so far.
AssignmentEntries(fields, acc) ==
    IF fields = <<>> THEN acc
    ELSE LET field == Head(fields)
             has == /\ "assignees" \in DOMAIN field.properties
                    /\ Len(field.properties.assignees) > 0
         IN  AssignmentEntries(Tail(fields),
                 IF has THEN PutEntry(acc, field.name, field.properties.assignees)
                 ELSE acc)

\* `REACT_PDF_EDITOR_ASSIGNMENTS:${JSON.stringify(fieldAssignmentsMap)}`
TitleWithAssignments(entries) == <<Prefix>> \o StringifyMap(entries)

\* What loadDocument leaves in extractedFieldAssignments.current for a
\* document with the given title (NoTitle: getTitle() is undefined), current
\* being the ref's value before: only a title that starts with the prefix and
\* whose rest parses assigns the ref.
ExtractAssignments(title, current) ==
    IF title # NoTitle /\ Head(title) = Prefix
    THEN LET parsed == ParseMap(Tail(title))
         IN  IF parsed.ok THEN [set |-> TRUE, map |-> MapOf(parsed.val)]
             ELSE current
    ELSE current

\* ------------------------------------------------------------ load and save
\* extractedFieldAssignments.current || fieldAssignments (any object, the
\* empty one included, is truthy).
effectiveAssignments ==
    IF extractedFieldAssignments.set THEN extractedFieldAssignments
    ELSE fieldAssignments

RemoveAt(seq, i) == [j \in 1..(Len(seq) - 1) |-> IF j < i THEN seq[j] ELSE seq[j + 1]]

\* The host passes another src: the cleanup of the previous run of the load
\* effect, then the effect again. The cleanup sees pdfDoc as it was when its
\* run of the effect was set up; loads in flight are not cancelled.
ChangeSrc(d) ==
    /\ d # src
    /\ Len(pending) < MaxPending
    /\ src' = d
    /\ pdfDoc' = IF cleanupDoc # NoDoc THEN NoDoc ELSE pdfDoc
    /\ cleanupDoc' = pdfDoc
    /\ docReady' = FALSE
    /\ pending' = Append(pending, d)
    /\ pagesReady' = IF docReady /\ pdfDoc' # NoDoc THEN FALSE ELSE pagesReady
    /\ lastOp' = Op("changeSrc", NoField, 0, 0)
    /\ inputs' = Mounted(mode, FALSE, pages)
    /\ UNCHANGED <<buildModeFields, selectedField, mode, zoomLevel, clock,
                   extractedFieldAssignments, fieldAssignments, buildSaved,
                   pages, activeParticipantId, unassignedVisibility, closure>>

\* The i-th loadDocument call in flight settles: getDocument resolves (the
\* document is set, the title is read) or rejects; docReady becomes true
\* either way, and the page effect starts over for the document in state.
LoadSettles(i) ==
    /\ i \in DOMAIN pending
    /\ LET d == pending[i]
       IN  /\ pdfDoc' = IF d.loads THEN d ELSE pdfDoc
           /\ extractedFieldAssignments' =
                 IF d.loads
                 THEN ExtractAssignments(d.title, extractedFieldAssignments)
                 ELSE extractedFieldAssignments
           /\ lastOp' = Op("loadSettles", NoField, IF d.loads THEN 1 ELSE 0, 0)
    /\ docReady' = TRUE
    /\ pending' = RemoveAt(pending, i)
    /\ pagesReady' = IF pdfDoc' # NoDoc THEN FALSE ELSE pagesReady
    /\ inputs' = Mounted(mode, pagesReady', pages)
    /\ UNCHANGED <<buildModeFields, selectedField, mode, zoomLevel, clock,
                   src, fieldAssignments, cleanupDoc, buildSaved,
                   pages, activeParticipantId, unassignedVisibility, closure>>

\* onSaveAs in build mode with onBuildSave supplied: the title and the map
\* handed to the host.
BuildSave ==
    /\ docReady /\ pagesReady
    /\ mode = "build"
    /\ pdfDoc # NoDoc
    /\ LET fieldAssignmentsMap == AssignmentEntries(buildModeFields, <<>>)
       IN  buildSaved' =
               [saved |-> TRUE,
                pdf |-> Doc(TRUE, TitleWithAssignments(fieldAssignmentsMap)),
                fieldAssignmentsMap |-> fieldAssignmentsMap]
    /\ lastOp' = Op("buildSave", NoField, 0, 0)
    /\ UNCHANGED <<buildModeFields, selectedField, mode, pagesReady, zoomLevel,
                   clock, extractedFieldAssignments, src, fieldAssignments,
                   pdfDoc, docReady, cleanupDoc, pending>>

\* ------------------------------------------------ specification: round trip
MetaNames == {<<"text_1">>, <<"a", Quote, "b">>, <<Backslash, "n">>, ProtoKey}

AssigneeLists == {<<>>, << <<"2">> >>, << <<"1">>, <<"2">> >>,
                  << <<"2">>, <<"1", Quote>> >>}

MetaFields ==
    {[NewField("text", 50, 50, 0, 1, 0) EXCEPT !.name = n] : n \in MetaNames}
    \cup
    {[NewField("text", 50, 50, 0, 1, 0) EXCEPT
         !.name = n,
         !.properties = PropertiesWith(@, "assignees", a)] :
       n \in MetaNames, a \in AssigneeLists}

InitRoundTrip ==
    /\ \E n \in 0..MaxFields : \E f \in [1..n -> MetaFields] :
          buildModeFields =
              [i \in 1..n |-> [f[i] EXCEPT !.id = generateFieldId(i, 0)]]
    /\ selectedField = NoField
    /\ mode = "build"
    /\ pagesReady = TRUE
    /\ zoomLevel = ActualSize
    /\ clock = 1
    /\ extractedFieldAssignments = NoAssignments
    /\ lastOp = Op("init", NoField, 0, 0)
    /\ LoadedUntitled
    /\ GestureIdle
    /\ SaveIdle
    /\ RenderIdle
    /\ PinchIdle
    /\ usedIds = {buildModeFields[i].id : i \in DOMAIN buildModeFields}
    /\ EditIdle

NextRoundTrip ==
  /\ UNCHANGED <<gestVars, saveVars, renderVars, pinchVars, usedIds>>
  /\
    \/ (BuildSave /\ UNCHANGED editVars)
    \/ (buildSaved.saved /\ ChangeSrc(buildSaved.pdf))
    \/ LoadSettles(1)
    \/ (PagesLoaded /\ UNCHANGED loadVars)

SpecRoundTrip == InitRoundTrip /\ [][NextRoundTrip]_vars

\* ------------------------------------------------------ specification: load
ValidTitle == TitleWithAssignments(<< <<<<"rent">>, << <<"1">> >> >> >>)
BrokenTitle == <<Prefix, "{", Quote, "rent">>

Library == {Doc(TRUE, <<"Lease">>), Doc(TRUE, NoTitle), Doc(TRUE, ValidTitle),
            Doc(TRUE, BrokenTitle), Doc(FALSE, NoTitle)}

CallerMaps == {NoAssignments,
               [set |-> TRUE, map |-> MapOf(<< <<<<"rent">>, << <<"2">> >> >> >>)]}

InitLoad ==
    /\ buildModeFields = <<>>
    /\ selectedField = NoField
    /\ mode = "edit"
    /\ pagesReady = FALSE
    /\ zoomLevel = ActualSize
    /\ clock = 0
    /\ extractedFieldAssignments = NoAssignments
    /\ lastOp = Op("init", NoField, 0, 0)
    /\ src \in Library
    /\ fieldAssignments \in CallerMaps
    /\ pdfDoc = NoDoc
    /\ docReady = FALSE
    /\ cleanupDoc = NoDoc
    /\ pending = <<src>>
    /\ buildSaved = [saved |-> FALSE, pdf |-> NoDoc, fieldAssignmentsMap |-> <<>>]
    /\ GestureIdle
    /\ SaveIdle
    /\ RenderIdle
    /\ PinchIdle
    /\ usedIds = {buildModeFields[i].id : i \in DOMAIN buildModeFields}
    /\ EditIdle

NextLoad ==
  /\ UNCHANGED <<gestVars, saveVars, renderVars, pinchVars, usedIds>>
  /\
    \/ \E d \in Library : ChangeSrc(d)
    \/ \E i \in 1..MaxPending : LoadSettles(i)
    \/ (PagesLoaded /\ UNCHANGED loadVars)

SpecLoad == InitLoad /\ [][NextLoad]_vars

\* ---------------------------------------------------- specification: drop
\* Zoom levels (indices from 1) at which the drop offsets below divide exactly:
\* 1.0, 1.25 and 2.0.
DropZooms == {5, 7, 10}

DropOffsets == {<<50, 50>>, <<100, 250>>}

DropPages == {1, 2}

InitDrop ==
    /\ buildModeFields \in
          {<<>>, <<SeededField(ExistingFields[1], PageHeight, NoAssignments)>>}
    /\ selectedField = NoField
    /\ mode = "build"
    /\ pagesReady = TRUE
    /\ zoomLevel \in DropZooms
    /\ clock = 0
    /\ extractedFieldAssignments = NoAssignments
    /\ lastOp = Op("init", NoField, 0, 0)
    /\ LoadedUntitled
    /\ GestureIdle
    /\ SaveIdle
    /\ RenderIdle
    /\ PinchIdle
    /\ usedIds = {buildModeFields[i].id : i \in DOMAIN buildModeFields}
    /\ EditIdle

NextDrop ==
  /\ UNCHANGED <<loadVars, gestVars, editVars, saveVars, renderVars, pinchVars, usedIds>>
  /\
    \/ \E t \in FieldTypes, p \in DropOffsets, n \in DropPages :
          HandleDrop(t, p[1], p[2], n, clock + 1, 0)
    \/ CanvasClick

SpecDrop == InitDrop /\ [][NextDrop]_vars

\* ----------------------------------------------------- field renderer gestures
\* A gesture is what one start handler of BuildModeFieldRenderer installs on
\* document: a move listener and an end listener, closed over the pointer and
\* the field's geometry at the start.
Handles == {"bottomRight", "bottomLeft", "topRight", "topLeft"}

Gesture(input, role, handle, field, p) ==
    [input |-> input, role |-> role, handle |-> handle, id |-> field.id,
     startX |-> p[1], startY |-> p[2],
     startFieldX |-> field.x, startFieldY |-> field.y,
     startWidth |-> field.width, startHeight |-> field.height,
     hasMoved |-> FALSE]

Abs(n) == IF n < 0 THEN -n ELSE n

\* delta / scale, scale being zoomLevels[zoomLevel]
Unscaled(delta) == (delta * 100) \div zoomLevels[zoomLevel]

TouchDragThreshold == 10

\* hasMoved after the move listener of gesture g has seen pointer p
MovedAfter(g, p) ==
    IF g.role # "drag" THEN g.hasMoved
    ELSE IF g.input = "mouse" THEN TRUE
    ELSE \/ g.hasMoved
         \/ Abs(p[1] - g.startX) > TouchDragThreshold
         \/ Abs(p[2] - g.startY) > TouchDragThreshold

\* The registry after the move listener of a resize gesture g has seen p.
ResizeListener(fields, g, p) ==
    LET deltaX == Unscaled(p[1] - g.startX)
        deltaY == Unscaled(p[2] - g.startY)
        left == g.handle \in {"bottomLeft", "topLeft"}
        top == g.handle \in {"topRight", "topLeft"}
        newWidth == IF left THEN g.startWidth - deltaX ELSE g.startWidth + deltaX
        newHeight == IF top THEN g.startHeight - deltaY ELSE g.startHeight + deltaY
        newX == IF left THEN g.startFieldX + deltaX ELSE g.startFieldX
        newY == IF top THEN g.startFieldY + deltaY ELSE g.startFieldY
        resized == resizeBuildModeField(fields, g.id, newWidth, newHeight)
    IN  IF newWidth >= MinSize /\ newHeight >= MinSize
        THEN IF g.handle # "bottomRight"
             THEN moveBuildModeField(resized, g.id, newX, newY)
             ELSE resized
        ELSE fields

\* The registry after the move listener of a drag gesture g has seen p.
DragListener(fields, g, p) ==
    IF MovedAfter(g, p)
    THEN moveBuildModeField(fields, g.id,
                            g.startFieldX + Unscaled(p[1] - g.startX),
                            g.startFieldY + Unscaled(p[2] - g.startY))
    ELSE fields

\* The registry after a move event at p has been dispatched to the move
\* listeners of the given input, in the order they were installed.
RECURSIVE DispatchMove(_, _, _, _)
DispatchMove(fields, gs, input, p) ==
    IF gs = <<>> THEN fields
    ELSE LET g == Head(gs)
             next == IF g.input # input THEN fields
                     ELSE IF g.role = "drag" THEN DragListener(fields, g, p)
                     ELSE ResizeListener(fields, g, p)
         IN  DispatchMove(next, Tail(gs), input, p)

Listening(input) == {k \in DOMAIN gestures : gestures[k].input = input}

Renderers == FieldIds(buildModeFields)

Flag(f, id) == id \in DOMAIN f /\ f[id]

Ref(f, id) == IF id \in DOMAIN f THEN f[id] ELSE 0

Put(f, id, v) == [k \in DOMAIN f \cup {id} |-> IF k = id THEN v ELSE f[k]]

FieldShown(id) == Rendered /\ mode = "build" /\ id \in Renderers

HandlesShown(id) == FieldShown(id) /\ selectedField = id /\ ~Flag(isResizing, id)

StartGesture(g) ==
    /\ gestureCount < MaxGestures
    /\ gestureCount' = gestureCount + 1
    /\ gestures' = Append(gestures, g)

\* handleMouseDown
MouseDown(id, p) ==
    /\ FieldShown(id) /\ ~mouseDown
    /\ StartGesture(Gesture("mouse", "drag", "none", FindField(buildModeFields, id), p))
    /\ mouseDown' = TRUE
    /\ isDragging' = Put(isDragging, id, TRUE)
    /\ lastOp' = Op("mouseDown", id, p[1], p[2])
    /\ UNCHANGED <<buildModeFields, selectedField, clickSuppressors,
                   longPressTimeout, timers, isResizing, touches>>

\* handleResizeMouseDown
ResizeMouseDown(id, handle, p) ==
    /\ HandlesShown(id) /\ ~mouseDown
    /\ StartGesture(Gesture("mouse", "resize", handle, FindField(buildModeFields, id), p))
    /\ mouseDown' = TRUE
    /\ isResizing' = Put(isResizing, id, TRUE)
    /\ lastOp' = Op("resizeMouseDown", id, p[1], p[2])
    /\ UNCHANGED <<buildModeFields, selectedField, clickSuppressors,
                   longPressTimeout, timers, isDragging, touches>>

\* handleTouchStart: the timer of an earlier start is overwritten in the ref,
\* not cleared.
TouchStart(id, p) ==
    /\ FieldShown(id) /\ touches < MaxTouches
    /\ StartGesture(Gesture("touch", "drag", "none", FindField(buildModeFields, id), p))
    /\ touches' = touches + 1
    /\ longPressTimeout' = Put(longPressTimeout, id, gestureCount + 1)
    /\ timers' = timers \cup {[t |-> gestureCount + 1, id |-> id]}
    /\ lastOp' = Op("touchStart", id, p[1], p[2])
    /\ UNCHANGED <<buildModeFields, selectedField, clickSuppressors,
                   isDragging, isResizing, mouseDown>>

\* handleResizeTouchStart
ResizeTouchStart(id, handle, p) ==
    /\ HandlesShown(id) /\ touches < MaxTouches
    /\ StartGesture(Gesture("touch", "resize", handle, FindField(buildModeFields, id), p))
    /\ touches' = touches + 1
    /\ isResizing' = Put(isResizing, id, TRUE)
    /\ lastOp' = Op("resizeTouchStart", id, p[1], p[2])
    /\ UNCHANGED <<buildModeFields, selectedField, clickSuppressors,
                   longPressTimeout, timers, isDragging, mouseDown>>

\* A mousemove on document: every installed handleMouseMove runs; the first
\* move of a drag adds its click suppressor.
MouseMove(p) ==
    /\ Listening("mouse") # {}
    /\ buildModeFields' = DispatchMove(buildModeFields, gestures, "mouse", p)
    /\ gestures' = [k \in DOMAIN gestures |->
                       IF gestures[k].input = "mouse"
                       THEN [gestures[k] EXCEPT !.hasMoved = MovedAfter(gestures[k], p)]
                       ELSE gestures[k]]
    /\ clickSuppressors' = clickSuppressors +
            Cardinality({k \in Listening("mouse") :
                            gestures[k].role = "drag" /\ ~gestures[k].hasMoved})
    /\ lastOp' = Op("mouseMove", NoField, p[1], p[2])
    /\ UNCHANGED <<selectedField, longPressTimeout, timers, isDragging,
                   isResizing, mouseDown, touches, gestureCount>>

\* A touchmove on document, e.touches[0] at p: every installed handleTouchMove
\* runs; a drag clears the timer its renderer's ref holds.
TouchMove(p) ==
    /\ touches > 0
    /\ Listening("touch") # {}
    /\ LET drags == {k \in Listening("touch") : gestures[k].role = "drag"}
           ids == {gestures[k].id : k \in drags}
           started == {gestures[k].id : k \in {j \in drags : MovedAfter(gestures[j], p)}}
       IN  /\ timers' = {t \in timers : ~(t.id \in ids /\ t.t = Ref(longPressTimeout, t.id))}
           /\ longPressTimeout' = [id \in DOMAIN longPressTimeout |->
                                      IF id \in ids THEN 0 ELSE longPressTimeout[id]]
           /\ isDragging' = [id \in DOMAIN isDragging \cup started |->
                                IF id \in started THEN TRUE ELSE isDragging[id]]
    /\ buildModeFields' = DispatchMove(buildModeFields, gestures, "touch", p)
    /\ gestures' = [k \in DOMAIN gestures |->
                       IF gestures[k].input = "touch"
                       THEN [gestures[k] EXCEPT !.hasMoved = MovedAfter(gestures[k], p)]
                       ELSE gestures[k]]
    /\ lastOp' = Op("touchMove", NoField, p[1], p[2])
    /\ UNCHANGED <<selectedField, clickSuppressors, isResizing, mouseDown,
                   touches, gestureCount>>

\* The state setters of the end listeners of the given input, which all remove
\* their gesture's move and end listeners.
EndListeners(input) ==
    /\ gestures' = SelectSeq(gestures, LAMBDA g : g.input # input)
    /\ isDragging' = [id \in DOMAIN isDragging |->
                         IF \E k \in Listening(input) :
                               gestures[k].id = id /\ gestures[k].role = "drag"
                         THEN FALSE ELSE isDragging[id]]
    /\ isResizing' = [id \in DOMAIN isResizing |->
                         IF \E k \in Listening(input) :
                               gestures[k].id = id /\ gestures[k].role = "resize"
                         THEN FALSE ELSE isResizing[id]]

\* The mouse button is released over the page: every installed handleMouseUp
\* runs. If the browser follows up with a click on the pressed field, a
\* suppressor swallows it (and is gone); otherwise handleClick selects the
\* field.
MouseUp(click) ==
    /\ mouseDown
    /\ mouseDown' = FALSE
    /\ EndListeners("mouse")
    /\ LET pressed == gestures[CHOOSE k \in Listening("mouse") :
                                  \A j \in Listening("mouse") : j <= k].id
       IN  /\ selectedField' = IF click /\ clickSuppressors = 0 THEN pressed
                               ELSE selectedField
           /\ lastOp' = Op("mouseUp", pressed, IF click THEN 1 ELSE 0, clickSuppressors)
    /\ clickSuppressors' = IF click THEN 0 ELSE clickSuppressors
    /\ UNCHANGED <<buildModeFields, longPressTimeout, timers, touches, gestureCount>>

\* A finger is lifted: every installed handleTouchEnd runs. A drag clears the
\* timer its renderer's ref holds, and selects its field if it never moved
\* (handleDoubleTap and onSelect both select it).
TouchEnd ==
    /\ touches > 0
    /\ touches' = touches - 1
    /\ EndListeners("touch")
    /\ LET drags == {k \in Listening("touch") : gestures[k].role = "drag"}
           ids == {gestures[k].id : k \in drags}
           taps == {k \in drags : ~gestures[k].hasMoved}
       IN  /\ timers' = {t \in timers : ~(t.id \in ids /\ t.t = Ref(longPressTimeout, t.id))}
           /\ longPressTimeout' = [id \in DOMAIN longPressTimeout |->
                                      IF id \in ids THEN 0 ELSE longPressTimeout[id]]
           /\ selectedField' =
                 IF taps = {} THEN selectedField
                 ELSE gestures[CHOOSE k \in taps : \A j \in taps : j <= k].id
    /\ lastOp' = Op("touchEnd", NoField, 0, 0)
    /\ UNCHANGED <<buildModeFields, clickSuppressors, mouseDown, gestureCount>>

\* The browser cancels the touches (touchcancel): no listener is registered
\* for it.
TouchCancel ==
    /\ touches > 0
    /\ touches' = 0
    /\ lastOp' = Op("touchCancel", NoField, 0, 0)
    /\ UNCHANGED <<buildModeFields, selectedField, gestures, clickSuppressors,
                   longPressTimeout, timers, isDragging, isResizing, mouseDown,
                   gestureCount>>

\* The window loses the pointer while the button is held (blur, release
\* outside the window): no mouseup reaches document, and no listener is
\* registered for blur.
WindowBlur ==
    /\ mouseDown
    /\ mouseDown' = FALSE
    /\ lastOp' = Op("blur", NoField, 0, 0)
    /\ UNCHANGED <<buildModeFields, selectedField, gestures, clickSuppressors,
                   longPressTimeout, timers, isDragging, isResizing, touches,
                   gestureCount>>

\* A long-press timer fires: onSelect(field.id).
TimerFires(t) ==
    /\ t \in timers
    /\ timers' = timers \ {t}
    /\ selectedField' = t.id
    /\ lastOp' = Op("timer", t.id, t.t, 0)
    /\ UNCHANGED <<buildModeFields, gestures, clickSuppressors, longPressTimeout,
                   isDragging, isResizing, mouseDown, touches, gestureCount>>

\* A click on the page outside the fields, no press in progress: a suppressor
\* on document swallows it in the capture phase (and is gone); otherwise
\* handleCanvasClick clears the selection.
CanvasClickEvent ==
    /\ Rendered /\ ~mouseDown
    /\ selectedField' = IF clickSuppressors = 0 THEN NoField ELSE selectedField
    /\ clickSuppressors' = 0
    /\ lastOp' = Op("click", NoField, clickSuppressors, 0)
    /\ UNCHANGED <<buildModeFields, gestures, longPressTimeout, timers,
                   isDragging, isResizing, mouseDown, touches, gestureCount>>

\* ------------------------------------------------- specification: gestures
Points == {<<100, 100>>, <<112, 104>>}

GestureHandles == {"topLeft"}

InitGesture ==
    /\ buildModeFields = <<SeededField(ExistingFields[1], PageHeight, NoAssignments),
                           NewField("checkbox", 50, 50, 0, 1, 0)>>
    /\ selectedField = NoField
    /\ mode = "build"
    /\ pagesReady = TRUE
    /\ zoomLevel = ActualSize
    /\ clock = 1
    /\ extractedFieldAssignments = NoAssignments
    /\ lastOp = Op("init", NoField, 0, 0)
    /\ LoadedUntitled
    /\ GestureIdle
    /\ SaveIdle
    /\ RenderIdle
    /\ PinchIdle
    /\ usedIds = {buildModeFields[i].id : i \in DOMAIN buildModeFields}
    /\ EditIdle

NextGesture ==
  /\ UNCHANGED <<mode, pagesReady, zoomLevel, clock, extractedFieldAssignments,
                 loadVars, editVars,
                 saveVars, renderVars, pinchVars, usedIds>>
  /\
    \/ \E id \in Renderers : MouseDown(id, <<100, 100>>)
    \/ \E id \in Renderers : \E h \in GestureHandles : ResizeMouseDown(id, h, <<100, 100>>)
    \/ \E id \in Renderers : TouchStart(id, <<100, 100>>)
    \/ \E id \in Renderers : \E h \in GestureHandles : ResizeTouchStart(id, h, <<100, 100>>)
    \/ \E p \in Points : MouseMove(p)
    \/ \E p \in Points : TouchMove(p)
    \/ \E click \in BOOLEAN : MouseUp(click)
    \/ TouchEnd
    \/ TouchCancel
    \/ WindowBlur
    \/ \E t \in timers : TimerFires(t)
    \/ CanvasClickEvent

SpecGesture == InitGesture /\ [][NextGesture]_vars

\* -------------------------------------------------- specification: resize
\* The pointer positions of a resize gesture that starts at (100, 100).
ResizeStart == <<100, 100>>

ResizePoints == {<<70, 100>>, <<110, 110>>, <<200, 120>>}

InitResize ==
    /\ buildModeFields = <<NewField("text", 50, 50, 0, 1, 0)>>
    /\ selectedField = generateFieldId(1, 0)
    /\ mode = "build"
    /\ pagesReady = TRUE
    /\ zoomLevel = ActualSize
    /\ clock = 1
    /\ extractedFieldAssignments = NoAssignments
    /\ lastOp = Op("add", generateFieldId(1, 0), 50, 50)
    /\ LoadedUntitled
    /\ GestureIdle
    /\ SaveIdle
    /\ RenderIdle
    /\ PinchIdle
    /\ usedIds = {buildModeFields[i].id : i \in DOMAIN buildModeFields}
    /\ EditIdle

NextResize ==
  /\ UNCHANGED <<mode, pagesReady, zoomLevel, clock, extractedFieldAssignments,
                 loadVars, editVars,
                 saveVars, renderVars, pinchVars, usedIds>>
  /\
    \/ \E id \in Renderers : \E h \in Handles : ResizeMouseDown(id, h, ResizeStart)
    \/ \E id \in Renderers : \E h \in Handles : ResizeTouchStart(id, h, ResizeStart)
    \/ \E p \in ResizePoints : MouseMove(p)
    \/ \E p \in ResizePoints : TouchMove(p)
    \/ MouseUp(TRUE)
    \/ TouchEnd

SpecResize == InitResize /\ [][NextResize]_vars

\* ------------------------------------------------ specification: geometry
\* Coordinates in this specification are counts of tenths of a point.
Tenth == 10

GeometryXs == {-5, 0, 4, 500, 505}
GeometryYs == {0, 500, 502, 7715}
GeometrySizes == {<<1150, 160>>, <<1153, 169>>, <<205, 205>>}
GeometryPageHeights == {7920, 8419}

InitGeometry ==
    /\ \E x \in GeometryXs, y \in GeometryYs, size \in GeometrySizes :
          buildModeFields =
             <<[NewField("text", x, y, 0, 1, 0) EXCEPT !.width = size[1],
                                                       !.height = size[2]]>>
    /\ selectedField = NoField
    /\ mode = "build"
    /\ pagesReady = TRUE
    /\ zoomLevel = ActualSize
    /\ clock = 1
    /\ extractedFieldAssignments = NoAssignments
    /\ lastOp = Op("init", NoField, 0, 0)
    /\ LoadedUntitled
    /\ GestureIdle
    /\ SaveIdle
    /\ RenderIdle
    /\ PinchIdle
    /\ usedIds = {buildModeFields[i].id : i \in DOMAIN buildModeFields}
    /\ EditIdle

\* The export transform of onSaveAs followed by the import transform of the
\* seeding effect, on a page of the given height.
GeometryRoundTrip(pageHeight) ==
    /\ lastOp.op = "init"
    /\ buildModeFields' =
          [i \in DOMAIN buildModeFields |->
              SeededField(CreatedField(buildModeFields[i], pageHeight, Tenth,
                                       ToString(i)),
                          pageHeight, NoAssignments)]
    /\ lastOp' = Op("geometry", NoField, pageHeight, 0)
    /\ UNCHANGED <<selectedField, mode, pagesReady, zoomLevel, clock,
                   extractedFieldAssignments>>

NextGeometry ==
  /\ UNCHANGED <<loadVars, gestVars, editVars, saveVars, renderVars, pinchVars, usedIds>>
  /\ \E pageHeight \in GeometryPageHeights : GeometryRoundTrip(pageHeight)

SpecGeometry == InitGeometry /\ [][NextGeometry]_vars

\* ------------------------------------------------ specification: enforcement
\* Host re-renders that change a prop.  renderPages is memoised on pages alone
\* and its effect depends on pagesReady, renderPages and zoomLevel, so none of
\* these runs the enforcement block.
SetActiveParticipant(p) ==
    /\ activeParticipantId' = p
    /\ lastOp' = Op("participant", p, 0, 0)
    /\ UNCHANGED <<pages, unassignedVisibility, inputs, closure, buildModeFields,
                   selectedField, mode, pagesReady, zoomLevel, clock,
                   extractedFieldAssignments, loadVars>>

SetUnassignedVisibility(v) ==
    /\ unassignedVisibility' = v
    /\ lastOp' = Op("visibility", NoField, 0, 0)
    /\ UNCHANGED <<pages, activeParticipantId, inputs, closure, buildModeFields,
                   selectedField, mode, pagesReady, zoomLevel, clock,
                   extractedFieldAssignments, loadVars>>

SetFieldAssignments(m) ==
    /\ fieldAssignments' = m
    /\ lastOp' = Op("assignments", NoField, 0, 0)
    /\ UNCHANGED <<editVars, buildModeFields, selectedField, mode, pagesReady,
                   zoomLevel, clock, extractedFieldAssignments, src, pdfDoc, docReady, cleanupDoc,
                   pending, buildSaved>>

\* The input's onChange: setPages with the new value, which gives renderPages
\* a new identity and so runs it with the props of this render.
ChangeValue(id, v) ==
    /\ Rendered /\ docReady
    /\ mode # "view"
    /\ id \in DOMAIN inputs
    /\ inputs[id].display # "none" /\ ~inputs[id].disabled
    /\ pages' = [pages EXCEPT !.fields =
                    [i \in DOMAIN pages.fields |->
                        IF pages.fields[i].id = id
                        THEN [pages.fields[i] EXCEPT !.value = v]
                        ELSE pages.fields[i]]]
    /\ closure' = Snapshot(mode, activeParticipantId, unassignedVisibility,
                           fieldAssignments)
    /\ inputs' = Enforce(closure', extractedFieldAssignments, pages', inputs)
    /\ lastOp' = Op("changeValue", id, 0, 0)
    /\ UNCHANGED <<activeParticipantId, unassignedVisibility, buildModeFields,
                   selectedField, mode, pagesReady, zoomLevel, clock,
                   extractedFieldAssignments, loadVars>>

\* onZoomIn / onZoomOut: the effect runs the memoised renderPages again.
Zoom(z) ==
    /\ Rendered /\ docReady
    /\ z # zoomLevel
    /\ zoomLevel' = z
    /\ inputs' = Enforce(closure, extractedFieldAssignments, pages, inputs)
    /\ lastOp' = Op("zoom", NoField, z, 0)
    /\ UNCHANGED <<buildModeFields, selectedField, mode, pagesReady, clock,
                   extractedFieldAssignments, pages, activeParticipantId,
                   unassignedVisibility, closure, loadVars>>

onZoomIn == Zoom(IF zoomLevel + 1 <= Len(zoomLevels) THEN zoomLevel + 1 ELSE zoomLevel)

onZoomOut == Zoom(Max(zoomLevel - 1, 1))

Values == {<<>>, <<" ">>, <<"O", "f", "f">>, <<"a">>}

HostMaps == {NoAssignments,
             [set |-> TRUE, map |-> MapOf(<< <<<<"rent">>, << <<"1">> >> >> >>)],
             [set |-> TRUE, map |-> MapOf(<< <<<<"rent">>, << <<"2">> >> >> >>)]}

EnforceZooms == {ActualSize - 1, ActualSize, ActualSize + 1}

InitEnforce ==
    /\ buildModeFields = <<>>
    /\ selectedField = NoField
    /\ mode = "edit"
    /\ pagesReady = FALSE
    /\ zoomLevel = ActualSize
    /\ clock = 0
    /\ extractedFieldAssignments = NoAssignments
    /\ lastOp = Op("init", NoField, 0, 0)
    /\ src = Doc(TRUE, NoTitle)
    /\ fieldAssignments \in HostMaps
    /\ pdfDoc = Doc(TRUE, NoTitle)
    /\ docReady = TRUE
    /\ cleanupDoc = NoDoc
    /\ pending = <<>>
    /\ buildSaved = [saved |-> FALSE, pdf |-> NoDoc, fieldAssignmentsMap |-> <<>>]
    /\ GestureIdle
    /\ SaveIdle
    /\ RenderIdle
    /\ PinchIdle
    /\ usedIds = {buildModeFields[i].id : i \in DOMAIN buildModeFields}
    /\ pages = NoPages
    /\ activeParticipantId \in Participants \cup {Undefined}
    /\ unassignedVisibility \in {"readonly", "hidden"}
    /\ inputs = Mounted(mode, FALSE, pages)
    /\ closure = Snapshot(mode, activeParticipantId, unassignedVisibility,
                          fieldAssignments)

NextEnforce ==
  /\ UNCHANGED <<gestVars, saveVars, renderVars, pinchVars, usedIds>>
  /\
    \/ (~pagesReady /\ PagesLoaded /\ UNCHANGED loadVars)
    \/ \E m \in {"build", "edit"} : (HandleModeChange(m) /\ UNCHANGED loadVars)
    \/ \E p \in Participants \cup {Undefined} : SetActiveParticipant(p)
    \/ \E v \in {"readonly", "hidden"} : SetUnassignedVisibility(v)
    \/ \E m \in HostMaps : SetFieldAssignments(m)
    \/ \E id \in DOMAIN inputs, v \in Values : ChangeValue(id, v)
    \/ (zoomLevel + 1 \in EnforceZooms /\ onZoomIn)
    \/ (zoomLevel - 1 \in EnforceZooms /\ onZoomOut)

SpecEnforce == InitEnforce /\ [][NextEnforce]_vars

\* --------------------------------------------------- specification: progress
\* A falsy text: undefined or the empty string.
Falsy(text) == text = Undefined \/ text = <<>>

DefaultValueOf(field) ==
    IF "defaultValue" \in DOMAIN field THEN field.defaultValue ELSE Undefined

\* field.value || field.defaultValue || ""
ValueOrDefault(field) ==
    IF ~Falsy(field.value) THEN field.value
    ELSE IF ~Falsy(DefaultValueOf(field)) THEN DefaultValueOf(field)
    ELSE <<>>

\* getAllFieldsValue: one key per field name, the last field of a name
\* writing its value.
getAllFieldsValue(pg) ==
    IF ~pg.set THEN <<>>
    ELSE [name \in {pg.fields[i].name : i \in {j \in DOMAIN pg.fields :
                                                 ~Falsy(pg.fields[j].name)}} |->
            ValueOrDefault(pg.fields[
                CHOOSE i \in DOMAIN pg.fields :
                    /\ pg.fields[i].name = name
                    /\ \A j \in DOMAIN pg.fields :
                          pg.fields[j].name = name => j <= i])]

Whitespace == {" ", Newline}

RECURSIVE TrimStart(_)
TrimStart(v) ==
    IF v # <<>> /\ Head(v) \in Whitespace THEN TrimStart(Tail(v)) ELSE v

RECURSIVE TrimEnd(_)
TrimEnd(v) ==
    IF v # <<>> /\ v[Len(v)] \in Whitespace
    THEN TrimEnd(SubSeq(v, 1, Len(v) - 1))
    ELSE v

\* String.prototype.trim
Trim(v) == TrimEnd(TrimStart(v))

Off == <<"O", "f", "f">>

\* value && value.trim() !== "" && value !== "Off", without the test for Off
IsCompletedCountingOff(formFields, fieldName) ==
    /\ fieldName \in DOMAIN formFields
    /\ ~Falsy(formFields[fieldName])
    /\ Trim(formFields[fieldName]) # <<>>

\* value && value.trim() !== "" && value !== "Off"
IsCompleted(formFields, fieldName) ==
    /\ fieldName \in DOMAIN formFields
    /\ ~Falsy(formFields[fieldName])
    /\ Trim(formFields[fieldName]) # <<>>
    /\ formFields[fieldName] # Off

\* assignees.includes(participant)
Includes(assignees, participant) ==
    \E k \in DOMAIN assignees : assignees[k] = participant

assignedFieldNames(effective, participant, formFields) ==
    IF effective.set /\ Truthy(participant)
    THEN {name \in DOMAIN effective.map : Includes(effective.map[name], participant)}
    ELSE DOMAIN formFields

getProgressData(pg, effective, participant) ==
    LET formFields == getAllFieldsValue(pg)
        names == assignedFieldNames(effective, participant, formFields)
    IN  [formFields |-> formFields,
         totalFields |-> Cardinality(names),
         completedFields |->
             Cardinality({name \in names : IsCompleted(formFields, name)})]

\* The host reads the progress (the panel's render, or a caller).
GetProgressData ==
    /\ lastOp' = Op("progress", NoField,
                    getProgressData(pages, effectiveAssignments,
                                    activeParticipantId).totalFields,
                    getProgressData(pages, effectiveAssignments,
                                    activeParticipantId).completedFields)
    /\ UNCHANGED <<buildModeFields, selectedField, mode, pagesReady, zoomLevel,
                   clock, extractedFieldAssignments, loadVars, editVars>>

ProgressField(id, name, defaultValue) ==
    [id |-> id, name |-> name, type |-> "text", multiline |-> FALSE, page |-> 0,
     rect |-> <<10, 700, 110, 730>>, value |-> Undefined,
     defaultValue |-> defaultValue]

ProgressNames == {<<"rent">>, <<"deposit">>}

ProgressDocuments ==
    {<< ProgressField("7R", <<"rent">>, Undefined) >>}
    \cup {<< ProgressField("7R", n, Undefined), ProgressField("8R", m, d) >> :
            n \in ProgressNames, m \in ProgressNames,
            d \in {Undefined, <<"d">>, Off}}

ProgressMaps ==
    {NoAssignments,
     [set |-> TRUE, map |-> MapOf(<< <<<<"rent">>, << <<"1">> >> >> >>)],
     [set |-> TRUE, map |-> MapOf(<< <<<<"rent">>, << <<"1">>, <<"2">> >> >>,
                                     <<<<"deposit">>, << <<"2">> >> >> >>)],
     [set |-> TRUE, map |-> MapOf(<< <<<<"rent">>, <<>> >>,
                                     <<<<"tenant">>, << <<"2">> >> >> >>)]}

ProgressValues == Values \cup {<<" ", "a">>, <<" ", "O", "f", "f">>}

InitProgress ==
    /\ buildModeFields = <<>>
    /\ selectedField = NoField
    /\ mode = "edit"
    /\ pagesReady = TRUE
    /\ zoomLevel = ActualSize
    /\ clock = 0
    /\ extractedFieldAssignments \in
          {NoAssignments,
           [set |-> TRUE, map |-> MapOf(<< <<<<"deposit">>, << <<"1">> >> >> >>)]}
    /\ lastOp = Op("init", NoField, 0, 0)
    /\ src = Doc(TRUE, NoTitle)
    /\ fieldAssignments \in ProgressMaps
    /\ pdfDoc = Doc(TRUE, NoTitle)
    /\ docReady = TRUE
    /\ cleanupDoc = NoDoc
    /\ pending = <<>>
    /\ buildSaved = [saved |-> FALSE, pdf |-> NoDoc, fieldAssignmentsMap |-> <<>>]
    /\ GestureIdle
    /\ SaveIdle
    /\ RenderIdle
    /\ PinchIdle
    /\ usedIds = {buildModeFields[i].id : i \in DOMAIN buildModeFields}
    /\ \E d \in ProgressDocuments : pages = [set |-> TRUE, fields |-> d]
    /\ activeParticipantId \in Participants \cup {Undefined}
    /\ unassignedVisibility = "readonly"
    /\ inputs = Mounted(mode, TRUE, pages)
    /\ closure = Snapshot(mode, activeParticipantId, unassignedVisibility,
                          fieldAssignments)

NextProgress ==
  /\ UNCHANGED <<gestVars, saveVars, renderVars, pinchVars, usedIds>>
  /\
    \/ GetProgressData
    \/ \E id \in DOMAIN inputs, v \in ProgressValues : ChangeValue(id, v)

SpecProgress == InitProgress /\ [][NextProgress]_vars

\* ----------------------------------------------------------------- export
\* The loaded document has one page.
PageCount == 1

\* The form of the loaded document as the PDF library reads it from
\* pdfDoc.getData(): its fields, none of them created by this editor.
OriginalLayer ==
    [i \in DOMAIN ExistingFields |->
        [name |-> ExistingFields[i].name, type |-> ExistingFields[i].type,
         page |-> ExistingFields[i].page, rect |-> ExistingFields[i].rect,
         value |-> ExistingFields[i].value, origin |-> "document"]]

\* form.flatten(): no field is left.
Flattened(layer) == <<>>

\* The names of the fields of a form.
LayerNames(layer) == {layer[k].name : k \in DOMAIN layer}

RECURSIVE CreateFields(_, _, _)
\* The loop over the registry: a record whose page the document lacks is
\* passed over; a record whose creation throws (the form has a field of its
\* name already, or the library refuses it: rejected) is logged and passed
\* over; every other record adds a field.
CreateFields(layer, fields, rejected) ==
    IF fields = <<>> THEN layer
    ELSE LET buildField == Head(fields)
             created == [name |-> buildField.name,
                         type |-> CreatedType(buildField.type),
                         page |-> buildField.page,
                         rect |-> ExportRect(buildField, PageHeight, 1),
                         value |-> Undefined, origin |-> "created"]
         IN  CreateFields(
                 IF \/ buildField.page \notin 0..(PageCount - 1)
                    \/ buildField.name \in LayerNames(layer) \cup rejected
                 THEN layer
                 ELSE Append(layer, created),
                 Tail(fields), rejected)

\* The form after the build-mode block of onSaveAs.
Rebuilt(layer, m, fields, rejected) ==
    IF m = "build" /\ Len(fields) > 0
    THEN CreateFields(Flattened(layer), fields, rejected)
    ELSE layer

\* Whether the value loops write to the field at all.
Writes(field, formFields) ==
    \/ field.type \in {"text", "checkbox"}
    \/ /\ field.type = "combobox"
       /\ field.name \in DOMAIN formFields
       /\ ~Falsy(formFields[field.name])

\* setText(value || ""), check()/uncheck(), select(value)
Written(field, formFields) ==
    LET value == IF field.name \in DOMAIN formFields THEN formFields[field.name]
                 ELSE Undefined
    IN  CASE field.type = "text" ->
                 [field EXCEPT !.value = IF Falsy(value) THEN <<>> ELSE value]
          [] field.type = "checkbox" ->
                 [field EXCEPT !.value = IF Falsy(value) THEN Off ELSE <<"On">>]
          [] field.type = "combobox" /\ ~Falsy(value) ->
                 [field EXCEPT !.value = value]
          [] OTHER -> field

\* The value loops of onSaveAs (one, and in build mode a second that repeats
\* it): they are not inside a try, so a write the library refuses (throwing:
\* the names it refuses) ends onSaveAs with that exception.
WriteValues(layer, formFields, throwing) ==
    IF \E k \in DOMAIN layer :
          layer[k].name \in throwing /\ Writes(layer[k], formFields)
    THEN [threw |-> TRUE, layer |-> <<>>]
    ELSE [threw |-> FALSE,
          layer |-> [k \in DOMAIN layer |-> Written(layer[k], formFields)]]

\* onSaveAs up to its first await, called by the header's Save button (which
\* is disabled while isSaving) or through ref.save().
SaveStart(trigger) ==
    /\ Len(exports) < MaxExports
    /\ trigger = "button" => (docReady /\ pagesReady /\ ~isSaving)
    /\ isSaving' = TRUE
    /\ exports' = Append(exports,
                         [mode |-> mode, buildModeFields |-> buildModeFields,
                          pages |-> pages, pdfDoc |-> pdfDoc])
    /\ lastOp' = Op("saveStart", NoField, 0, 0)
    /\ lastSave' = NoSave
    /\ UNCHANGED <<buildModeFields, selectedField, mode, pagesReady,
                   zoomLevel, clock, extractedFieldAssignments, loadVars,
                   editVars>>

\* The rest of an onSaveAs execution, with the state it closed over.  The
\* library refuses to create the names in rejected and to write the names in
\* throwing.
SaveSettles(i, rejected, throwing) ==
    /\ i \in DOMAIN exports
    /\ LET e == exports[i]
           formFields == getAllFieldsValue(e.pages)
           rebuilt == Rebuilt(OriginalLayer, e.mode, e.buildModeFields, rejected)
           written == WriteValues(rebuilt, formFields, throwing)
           fieldAssignmentsMap == AssignmentEntries(e.buildModeFields, <<>>)
           outcome == IF e.pdfDoc = NoDoc THEN "nothing"
                      ELSE IF written.threw THEN "threw" ELSE "delivered"
       IN  /\ lastSave' = [outcome |-> outcome, mode |-> e.mode,
                           registry |-> e.buildModeFields,
                           layer |-> written.layer,
                           rejected |-> rejected, throwing |-> throwing]
           /\ isSaving' = IF outcome = "threw" THEN isSaving ELSE FALSE
           /\ buildSaved' =
                 IF outcome = "delivered" /\ e.mode = "build"
                 THEN [saved |-> TRUE,
                       pdf |-> Doc(TRUE, TitleWithAssignments(fieldAssignmentsMap)),
                       fieldAssignmentsMap |-> fieldAssignmentsMap]
                 ELSE buildSaved
    /\ exports' = RemoveAt(exports, i)
    /\ lastOp' = Op("saveSettled", NoField, 0, 0)
    /\ UNCHANGED <<buildModeFields, selectedField, mode, pagesReady, zoomLevel,
                   clock, extractedFieldAssignments, src, fieldAssignments,
                   pdfDoc, docReady, cleanupDoc, pending, editVars>>

\* ----------------------------------------------------- specification: export
\* The registry is edited and the mode switched between exports, not while
\* one is outstanding.
Refusals == {{}, {<<"rent">>}}

InitExport ==
    /\ buildModeFields = <<SeededField(ExistingFields[1], PageHeight, NoAssignments)>>
    /\ selectedField = NoField
    /\ mode = "build"
    /\ pagesReady = TRUE
    /\ zoomLevel = ActualSize
    /\ clock = 0
    /\ extractedFieldAssignments = NoAssignments
    /\ lastOp = Op("init", NoField, 0, 0)
    /\ LoadedUntitled
    /\ GestureIdle
    /\ SaveIdle
    /\ RenderIdle
    /\ PinchIdle
    /\ usedIds = {buildModeFields[i].id : i \in DOMAIN buildModeFields}
    /\ EditIdle

NextExport ==
  /\ UNCHANGED <<gestVars, renderVars, pinchVars, usedIds>>
  /\
    \/ \E trigger \in {"button", "ref"} : SaveStart(trigger)
    \/ \E i \in 1..MaxExports, rejected \in Refusals, throwing \in Refusals :
          SaveSettles(i, rejected, throwing)
    \/ /\ exports = <<>>
       /\ lastSave' = NoSave
       /\ UNCHANGED <<loadVars, isSaving, exports>>
       /\ \E m \in {"build", "edit"} : HandleModeChange(m)
    \/ /\ exports = <<>>
       /\ lastSave' = NoSave
       /\ UNCHANGED <<loadVars, isSaving, exports, editVars>>
       /\
          \/ HandleDrop("text", 50, 50, 1, clock + 1, 0)
          \/ DuplicateField(clock + 1)
          \/ \E id \in FieldIds(buildModeFields) : DeleteField(id)
          \/ \E id \in FieldIds(buildModeFields) : SelectField(id)

SpecExport == InitExport /\ [][NextExport]_vars

\* ------------------------------------------------------------ page rendering
\* A render task pdf.js returns from page.render(...) on a canvas.
Task(page, canvas) ==
    [page |-> page, canvas |-> canvas, cancelled |-> FALSE, settled |-> FALSE]

\* RenderTask.cancel() on the tasks with these ids; a settled task is past it.
Cancel(tasks, ids) ==
    [i \in DOMAIN tasks |->
        IF i \in ids /\ ~tasks[i].settled
        THEN [tasks[i] EXCEPT !.cancelled = TRUE]
        ELSE tasks[i]]

\* The render calls of renderPages: one per page on the page's canvas.  The
\* task returned is dropped, and no task of an earlier run is cancelled.
MainRenders(tasks) ==
    tasks \o [p \in 1..PageCount |-> Task(p, "main")]

\* The thumbnail effect when pages changes: the cleanup of its previous run
\* cancels the tasks in renderTasksRef and clears it, then a new
\* renderSequentially starts at the first page.
ThumbnailEffect ==
    /\ renderTasksRef' = <<>>
    /\ renderLoops' = Append(renderLoops, [at |-> 1, waiting |-> 0])
    /\ UNCHANGED renderedPagesRef

CancelledByCleanup(tasks) ==
    Cancel(tasks, {renderTasksRef[p] : p \in DOMAIN renderTasksRef})

\* The loop moves on to its next page, or ends after the last.
Advance(loops, l) ==
    IF loops[l].at + 1 > PageCount THEN RemoveAt(loops, l)
    ELSE [loops EXCEPT ![l] = [at |-> loops[l].at + 1, waiting |-> 0]]

\* The pages finish loading: the editor renders, the render effect runs
\* renderPages and the thumbnails mount.
PagesLoadedRenders ==
    /\ ~pagesReady
    /\ Len(renderTasks) + PageCount <= MaxRenders
    /\ PagesLoaded
    /\ renderTasks' = MainRenders(CancelledByCleanup(renderTasks))
    /\ ThumbnailEffect
    /\ UNCHANGED loadVars

\* A zoom step: the render effect runs renderPages at the new scale.
ZoomRenders ==
    /\ Len(renderTasks) + PageCount <= MaxRenders
    /\ \/ (zoomLevel + 1 \in EnforceZooms /\ onZoomIn)
       \/ (zoomLevel - 1 \in EnforceZooms /\ onZoomOut)
    /\ renderTasks' = MainRenders(renderTasks)
    /\ UNCHANGED <<renderTasksRef, renderedPagesRef, renderLoops>>

\* A value is entered: pages changes, so renderPages is a new callback and
\* the render effect runs it, and the thumbnail effect runs again.
ChangeValueRenders(id, v) ==
    /\ Len(renderTasks) + PageCount <= MaxRenders
    /\ ChangeValue(id, v)
    /\ renderTasks' = MainRenders(CancelledByCleanup(renderTasks))
    /\ ThumbnailEffect

\* renderSequentially calls renderThumbnail for its page, up to the await.
ThumbnailStep(l) ==
    /\ l \in DOMAIN renderLoops
    /\ renderLoops[l].waiting = 0
    /\ LET page == renderLoops[l].at
           id == Len(renderTasks) + 1
       IN  IF page \in renderedPagesRef
           THEN /\ renderLoops' = Advance(renderLoops, l)
                /\ UNCHANGED <<renderTasks, renderTasksRef>>
           ELSE /\ Len(renderTasks) < MaxRenders
                /\ renderTasks' =
                      Append(Cancel(renderTasks,
                                    IF page \in DOMAIN renderTasksRef
                                    THEN {renderTasksRef[page]} ELSE {}),
                             Task(page, "thumb"))
                /\ renderTasksRef' =
                      [p \in DOMAIN renderTasksRef \cup {page} |->
                          IF p = page THEN id ELSE renderTasksRef[p]]
                /\ renderLoops' = [renderLoops EXCEPT ![l].waiting = id]
    /\ lastOp' = Op("thumbnail", NoField, renderLoops[l].at, 0)
    /\ UNCHANGED <<renderedPagesRef, buildModeFields, selectedField, mode,
                   pagesReady, zoomLevel, clock, extractedFieldAssignments,
                   loadVars, editVars>>

\* A render task settles: it resolves, or rejects if it was cancelled.  The
\* renderThumbnail awaiting it records the page as rendered, or returns on a
\* cancellation, and its loop moves on; nothing awaits a task of renderPages.
RenderTaskSettles(i) ==
    /\ i \in DOMAIN renderTasks
    /\ ~renderTasks[i].settled
    /\ renderTasks' = [renderTasks EXCEPT ![i].settled = TRUE]
    /\ IF \E l \in DOMAIN renderLoops : renderLoops[l].waiting = i
       THEN LET l == CHOOSE l \in DOMAIN renderLoops : renderLoops[l].waiting = i
                page == renderTasks[i].page
            IN  /\ renderLoops' = Advance(renderLoops, l)
                /\ IF renderTasks[i].cancelled
                   THEN UNCHANGED <<renderedPagesRef, renderTasksRef>>
                   ELSE /\ renderedPagesRef' = renderedPagesRef \cup {page}
                        /\ renderTasksRef' =
                              [p \in DOMAIN renderTasksRef \ {page} |->
                                  renderTasksRef[p]]
       ELSE UNCHANGED <<renderedPagesRef, renderTasksRef, renderLoops>>
    /\ lastOp' = Op("renderSettles", NoField, i, 0)
    /\ UNCHANGED <<buildModeFields, selectedField, mode, pagesReady, zoomLevel,
                   clock, extractedFieldAssignments, loadVars, editVars>>

\* --------------------------------------------------- specification: rendering
InitRender ==
    /\ buildModeFields = <<>>
    /\ selectedField = NoField
    /\ mode = "edit"
    /\ pagesReady = FALSE
    /\ zoomLevel = ActualSize
    /\ clock = 0
    /\ extractedFieldAssignments = NoAssignments
    /\ lastOp = Op("init", NoField, 0, 0)
    /\ LoadedUntitled
    /\ GestureIdle
    /\ SaveIdle
    /\ RenderIdle
    /\ PinchIdle
    /\ usedIds = {buildModeFields[i].id : i \in DOMAIN buildModeFields}
    /\ EditIdle

NextRender ==
  /\ UNCHANGED <<gestVars, saveVars, pinchVars, usedIds>>
  /\
    \/ PagesLoadedRenders
    \/ ZoomRenders
    \/ \E id \in DOMAIN inputs, v \in Values : ChangeValueRenders(id, v)
    \/ \E l \in 1..MaxRenders : ThumbnailStep(l)
    \/ \E i \in 1..MaxRenders : RenderTaskSettles(i)

SpecRender == InitRender /\ [][NextRender]_vars

\* --------------------------------------------- specification: resize frames
\* The pointer positions of a resize gesture that starts at ResizeStart on a
\* field at (50, 50) of 115 x 40: frames that grow the field, that would put
\* its left edge left of the page, and that would make it lower than MinSize
\* from a bottom handle.
FramePoints == {<<110, 115>>, <<40, 110>>, <<200, 70>>}

InitFrames ==
    /\ buildModeFields = <<[NewField("text", 50, 50, 0, 1, 0) EXCEPT !.height = 40]>>
    /\ selectedField = generateFieldId(1, 0)
    /\ mode = "build"
    /\ pagesReady = TRUE
    /\ zoomLevel = ActualSize
    /\ clock = 1
    /\ extractedFieldAssignments = NoAssignments
    /\ lastOp = Op("sizeChange", generateFieldId(1, 0), 115, 40)
    /\ LoadedUntitled
    /\ GestureIdle
    /\ SaveIdle
    /\ RenderIdle
    /\ PinchIdle
    /\ usedIds = {buildModeFields[i].id : i \in DOMAIN buildModeFields}
    /\ EditIdle

NextFrames ==
  /\ UNCHANGED <<mode, pagesReady, zoomLevel, clock, extractedFieldAssignments,
                 loadVars, editVars, saveVars, renderVars, pinchVars, usedIds>>
  /\
    \/ \E id \in Renderers : \E h \in Handles : ResizeMouseDown(id, h, ResizeStart)
    \/ \E id \in Renderers : \E h \in Handles : ResizeTouchStart(id, h, ResizeStart)
    \/ \E p \in FramePoints : MouseMove(p)
    \/ \E p \in FramePoints : TouchMove(p)
    \/ MouseUp(TRUE)
    \/ TouchEnd

SpecFrames == InitFrames /\ [][NextFrames]_vars

\* ----------------------------------------------------- specification: drag
\* The pointer positions of a press that starts at DragStart: one within the
\* 10 px threshold of the start, one past it.
DragStart == <<100, 100>>

DragPoints == {<<104, 103>>, <<112, 104>>}

InitDrag ==
    /\ buildModeFields = <<NewField("text", 50, 50, 0, 1, 0)>>
    /\ selectedField = NoField
    /\ mode = "build"
    /\ pagesReady = TRUE
    /\ zoomLevel = ActualSize
    /\ clock = 1
    /\ extractedFieldAssignments = NoAssignments
    /\ lastOp = Op("canvasClick", NoField, 0, 0)
    /\ LoadedUntitled
    /\ GestureIdle
    /\ SaveIdle
    /\ RenderIdle
    /\ PinchIdle
    /\ usedIds = {buildModeFields[i].id : i \in DOMAIN buildModeFields}
    /\ EditIdle

NextDrag ==
  /\ UNCHANGED <<mode, pagesReady, zoomLevel, clock, extractedFieldAssignments,
                 loadVars, editVars, saveVars, renderVars, pinchVars, usedIds>>
  /\
    \/ \E id \in Renderers : MouseDown(id, DragStart)
    \/ \E id \in Renderers : TouchStart(id, DragStart)
    \/ \E p \in DragPoints : MouseMove(p)
    \/ \E p \in DragPoints : TouchMove(p)
    \/ \E click \in BOOLEAN : MouseUp(click)
    \/ TouchEnd
    \/ \E t \in timers : TimerFires(t)
    \/ CanvasClickEvent

SpecDrag == InitDrag /\ [][NextDrag]_vars

\* ---------------------------------------------- specification: long press
\* Touches on the fields of the page, their moves and ends, and the expiry of
\* the long-press timers, in every order.
LongPressStart == <<100, 100>>

LongPressPoints == {<<100, 100>>, <<104, 103>>, <<112, 104>>}

InitLongPress == InitGesture

NextLongPress ==
  /\ UNCHANGED <<mode, pagesReady, zoomLevel, clock, extractedFieldAssignments,
                 loadVars, editVars,
                 saveVars, renderVars, pinchVars, usedIds>>
  /\
    \/ \E id \in Renderers : TouchStart(id, LongPressStart)
    \/ \E p \in LongPressPoints : TouchMove(p)
    \/ TouchEnd
    \/ \E t \in timers : TimerFires(t)

SpecLongPress == InitLongPress /\ [][NextLongPress]_vars

\* ------------------------------------------------------------------ pinch
\* The pixels the distance must change by before the zoom steps.
PinchThreshold == 30

\* handlePinchZoom, e.touches.length being n and the distance between
\* e.touches[0] and e.touches[1] (Math.hypot of their offsets) being distance.
handlePinchZoom(n, distance) ==
    IF n # 2
    THEN /\ isPinching' = FALSE
         /\ UNCHANGED <<lastPinchDistance, zoomLevel, inputs>>
    ELSE IF ~isPinching
    THEN /\ isPinching' = TRUE
         /\ lastPinchDistance' = distance
         /\ UNCHANGED <<zoomLevel, inputs>>
    ELSE LET delta == distance - lastPinchDistance
         IN  IF Abs(delta) > PinchThreshold
             THEN /\ zoomLevel' =
                        IF delta > 0 /\ zoomLevel < Len(zoomLevels)
                        THEN Min(zoomLevel + 1, Len(zoomLevels))
                        ELSE IF delta < 0 /\ zoomLevel > 1
                        THEN Max(zoomLevel - 1, 1)
                        ELSE zoomLevel
                  /\ inputs' = IF zoomLevel' # zoomLevel
                               THEN Enforce(closure, extractedFieldAssignments,
                                            pages, inputs)
                               ELSE inputs
                  /\ lastPinchDistance' = distance
                  /\ UNCHANGED isPinching
             ELSE UNCHANGED <<isPinching, lastPinchDistance, zoomLevel, inputs>>

\* A finger lands on the page container: no touchstart listener is registered
\* on it.
ContainerTouchStart ==
    /\ Rendered
    /\ touches < MaxContacts
    /\ touches' = touches + 1
    /\ contactsChanged' = TRUE
    /\ lastOp' = Op("containerTouchStart", NoField, 0, touches + 1)
    /\ UNCHANGED <<isPinching, lastPinchDistance, zoomLevel, inputs>>

\* The container's touchmove listener: handlePinchZoom runs only when
\* e.touches.length === 2.
ContainerTouchMove(distance) ==
    /\ Rendered
    /\ touches > 0
    /\ IF touches = 2
       THEN /\ handlePinchZoom(touches, distance)
            /\ contactsChanged' = FALSE
       ELSE UNCHANGED <<isPinching, lastPinchDistance, zoomLevel, inputs,
                        contactsChanged>>
    /\ lastOp' = Op("pinchMove", NoField, distance, touches)
    /\ UNCHANGED touches

\* handlePinchEnd, from the container's touchend listener: a finger is lifted.
handlePinchEnd ==
    /\ touches > 0
    /\ touches' = touches - 1
    /\ isPinching' = FALSE
    /\ lastPinchDistance' = 0
    /\ contactsChanged' = TRUE
    /\ lastOp' = Op("containerTouchEnd", NoField, 0, touches - 1)
    /\ UNCHANGED <<zoomLevel, inputs>>

\* The browser cancels the touches on the container (touchcancel): no
\* listener is registered for it.
ContainerTouchCancel ==
    /\ touches > 0
    /\ touches' = 0
    /\ contactsChanged' = TRUE
    /\ lastOp' = Op("containerTouchCancel", NoField, 0, 0)
    /\ UNCHANGED <<isPinching, lastPinchDistance, zoomLevel, inputs>>

\* --------------------------------------------------- specification: pinch
\* The distances between the two contacts that the touch moves report.
PinchDistances == {100, 120, 140, 180}

\* The zoom starts two steps below the end of the list, so that both a step
\* and the no-op at the end happen.
InitPinch ==
    /\ buildModeFields = <<>>
    /\ selectedField = NoField
    /\ mode = "build"
    /\ pagesReady = TRUE
    /\ zoomLevel \in {2, Len(zoomLevels) - 1}
    /\ clock = 1
    /\ extractedFieldAssignments = NoAssignments
    /\ lastOp = Op("init", NoField, 0, 0)
    /\ LoadedUntitled
    /\ GestureIdle
    /\ SaveIdle
    /\ RenderIdle
    /\ PinchIdle
    /\ usedIds = {buildModeFields[i].id : i \in DOMAIN buildModeFields}
    /\ EditIdle

NextPinch ==
  /\ UNCHANGED <<buildModeFields, selectedField, mode, pagesReady, clock,
                 extractedFieldAssignments, gestures, clickSuppressors,
                 longPressTimeout, timers, isDragging, isResizing, mouseDown,
                 gestureCount, pages, activeParticipantId,
                 unassignedVisibility, closure,
                 loadVars, saveVars, renderVars, usedIds>>
  /\
    \/ ContainerTouchStart
    \/ \E distance \in PinchDistances : ContainerTouchMove(distance)
    \/ handlePinchEnd
    \/ ContainerTouchCancel

SpecPinch == InitPinch /\ [][NextPinch]_vars

\* ------------------------------------------------ specification: identity
\* The values Math.random() returns; a value is not returned twice.
Randoms == 0..1

FreshRandom(rnd) ==
    \A id \in usedIds : ~(id[1] = "field" /\ id[3] = ToString(rnd))

\* Date.now() at a call: the last value read, or a later one.
Now == {now \in {clock, clock + 1} : now <= MaxClock}

InitIds ==
    /\ Init
    /\ mode = "build"

\* Adds and duplicates, several of them within one tick of the clock, the
\* seeding of the loaded document's fields when its pages arrive, selects and
\* deletes.
NextIds ==
  /\ UNCHANGED <<loadVars, gestVars, saveVars, renderVars, pinchVars>>
  /\
    \/ ~pagesReady /\ PagesLoaded
    \/ /\ \E now \in Now, rnd \in Randoms :
             FreshRandom(rnd) /\ HandleDrop("text", 50, 50, 1, now, rnd)
       /\ UNCHANGED editVars
    \/ /\ \E now \in Now : DuplicateField(now)
       /\ UNCHANGED editVars
    \/ /\ \E id \in FieldIds(buildModeFields) : DeleteField(id)
       /\ UNCHANGED editVars
    \/ /\ \E id \in FieldIds(buildModeFields) : SelectField(id)
       /\ UNCHANGED editVars
  /\ usedIds' = usedIds \cup FieldIds(buildModeFields')

SpecIds == InitIds /\ [][NextIds]_vars

\* ----------------------------------------------- specification: selection
\* Adds, duplicates, selects (click, tap, long-press timer), deletes, canvas
\* clicks and mode changes, in every order. A delete may come while a finger
\* is on the field: from the keyboard, or from the field's delete button,
\* whose onTouchEnd stops the event before it reaches the document listeners.
InitSelection == InitGesture

NextSelection ==
  /\ UNCHANGED <<loadVars, saveVars, renderVars, pinchVars, usedIds>>
  /\
    \/ /\ UNCHANGED <<mode, pagesReady, zoomLevel, clock,
                      extractedFieldAssignments, editVars>>
       /\ \/ \E id \in Renderers : TouchStart(id, <<100, 100>>)
          \/ TouchEnd
          \/ \E t \in timers : TimerFires(t)
    \/ /\ UNCHANGED <<gestVars, editVars>>
       /\ \/ HandleDrop("text", 50, 50, 1, clock + 1, 0)
          \/ DuplicateField(clock + 1)
          \/ \E id \in FieldIds(buildModeFields) : DeleteField(id)
          \/ \E id \in FieldIds(buildModeFields) : SelectField(id)
          \/ CanvasClick
    \/ /\ UNCHANGED gestVars
       /\ \E m \in {"build", "edit"} : HandleModeChange(m)

SpecSelection == InitSelection /\ [][NextSelection]_vars

\* ------------------------------------------ specification: export, fair
\* An onSaveAs execution in flight runs on: each of its awaits resolves or
\* rejects, and the event loop then runs the rest of the function.
SaveRunsOn ==
    /\ UNCHANGED <<gestVars, renderVars, pinchVars, usedIds>>
    /\ \E i \in 1..MaxExports, rejected \in Refusals, throwing \in Refusals :
          SaveSettles(i, rejected, throwing)

SpecExportLive == InitExport /\ [][NextExport]_vars /\ WF_vars(SaveRunsOn)

\* ------------------------------------------------------------- view scale
\* The loop of resetViewScale from index i (from 0, as in the code) on:
\* closestZoomLevel when it ends; -1 stands for undefined, and minDifference
\* is Infinity while closestZoomLevel is undefined. The differences
\* |divWidth / maxPageWidth - zoomLevels[i]| are compared as multiples of
\* 1 / (100 * maxPageWidth).
RECURSIVE ClosestZoomLevel(_, _, _, _, _)
ClosestZoomLevel(i, divWidth, maxPageWidth, minDifference, closestZoomLevel) ==
    IF i >= Len(zoomLevels) THEN closestZoomLevel
    ELSE LET difference == Abs(100 * divWidth - zoomLevels[i + 1] * maxPageWidth)
         IN  IF closestZoomLevel = -1 \/ difference < minDifference
             THEN ClosestZoomLevel(i + 1, divWidth, maxPageWidth, difference, i)
             ELSE ClosestZoomLevel(i + 1, divWidth, maxPageWidth, minDifference,
                                   closestZoomLevel)

\* The argument resetViewScale passes to setZoomLevel, as an index from 0:
\* closestZoomLevel || 6.
ClosestOrDefault(divWidth, maxPageWidth) ==
    LET closestZoomLevel == ClosestZoomLevel(0, divWidth, maxPageWidth, 0, -1)
    IN  IF closestZoomLevel = -1 \/ closestZoomLevel = 0 THEN 6
        ELSE closestZoomLevel

\* The window's resize listener: resetViewScale(divRef.current.offsetWidth),
\* maxPageWidth being the page width the first render stored. zoomLevel is
\* kept from 1 here.
resetViewScale(divWidth, maxPageWidth) ==
    /\ Rendered /\ docReady
    /\ zoomLevel' = IF divWidth # 0 /\ maxPageWidth # 0
                    THEN ClosestOrDefault(divWidth, maxPageWidth) + 1
                    ELSE zoomLevel
    /\ inputs' = IF zoomLevel' # zoomLevel
                 THEN Enforce(closure, extractedFieldAssignments, pages, inputs)
                 ELSE inputs
    /\ lastOp' = Op("windowResize", NoField, divWidth, maxPageWidth)
    /\ UNCHANGED <<buildModeFields, selectedField, mode, pagesReady, clock,
                   extractedFieldAssignments, pages, activeParticipantId,
                   unassignedVisibility, closure, loadVars>>

\* ---------------------------------------------- specification: view scale
\* Container widths from 0 to 3000 px, in steps of 50 px.
ContainerWidths == {50 * k : k \in 0..60}

PageWidths == {600, 800}

InitViewScale ==
    /\ buildModeFields = <<>>
    /\ selectedField = NoField
    /\ mode = "edit"
    /\ pagesReady = TRUE
    /\ zoomLevel = ActualSize
    /\ clock = 1
    /\ extractedFieldAssignments = NoAssignments
    /\ lastOp = Op("init", NoField, 0, 0)
    /\ LoadedUntitled
    /\ GestureIdle
    /\ SaveIdle
    /\ RenderIdle
    /\ PinchIdle
    /\ usedIds = {}
    /\ EditIdle

NextViewScale ==
  /\ UNCHANGED <<gestVars, saveVars, renderVars, pinchVars, usedIds>>
  /\
    \/ \E divWidth \in ContainerWidths, maxPageWidth \in PageWidths :
          resetViewScale(divWidth, maxPageWidth)
    \/ onZoomIn
    \/ onZoomOut

SpecViewScale == InitViewScale /\ [][NextViewScale]_vars

\* ------------------------------------------------- specification: seeding
\* One document is loaded, its pages arrive once, and the user edits the
\* registry and switches modes in every order.
InitSeed == Init

NextSeed ==
  /\ UNCHANGED <<loadVars, gestVars, saveVars, renderVars, pinchVars>>
  /\
    \/ ~pagesReady /\ PagesLoaded
    \/ \E m \in {"build", "edit"} : HandleModeChange(m)
    \/ (RegistryNext /\ UNCHANGED editVars)
  /\ usedIds' = usedIds \cup FieldIds(buildModeFields')

SpecSeed == InitSeed /\ [][NextSeed]_vars

\* -------------------------------------------------------- claims: drop
\* C11: a drop of type t at viewport offset (vx, vy) on page n (counted from
\* 1) at zoom s appends exactly one record, with x = vx / s, y = vy / s,
\* page n - 1, origin new, type t and the default size of t; the records
\* already there are unchanged, and the new record is the selected one.
C11_DropAppendsOneRecord ==
    [][\A t \in FieldTypes, p \in DropOffsets, n \in DropPages :
          HandleDrop(t, p[1], p[2], n, clock + 1, 0) =>
             LET new == buildModeFields'[Len(buildModeFields')]
                 s == zoomLevels[zoomLevel]
                 size == CASE t = "text" -> <<115, 16>>
                           [] t = "multiline" -> <<300, 80>>
                           [] t = "checkbox" -> <<16, 16>>
                           [] t = "dropdown" -> <<115, 16>>
                           [] t = "radio" -> <<100, 16>>
                           [] t = "signature" -> <<115, 16>>
             IN  /\ Len(buildModeFields') = Len(buildModeFields) + 1
                 /\ \A i \in DOMAIN buildModeFields :
                       buildModeFields'[i] = buildModeFields[i]
                 /\ new.x * s = p[1] * 100 /\ new.y * s = p[2] * 100
                 /\ new.page = n - 1 /\ new.origin = "new" /\ new.type = t
                 /\ <<new.width, new.height>> = size
                 /\ selectedField' = new.id]_vars

\* C11 witness: a text field dropped at (50, 50) on the first page at zoom 1.0
\* behind an existing record: x = 50, y = 50, 115 x 16, selected.
C11_Witness ==
    /\ lastOp.op = "add" /\ zoomLevel = ActualSize
    /\ Len(buildModeFields) = 2
    /\ buildModeFields[1].origin = "existing"
    /\ LET new == buildModeFields[2]
       IN  /\ new.type = "text" /\ new.x = 50 /\ new.y = 50 /\ new.page = 0
           /\ new.width = 115 /\ new.height = 16 /\ new.origin = "new"
           /\ selectedField = new.id

\* ------------------------------------------------------ claims: resize
\* C12 (as claimed): a freshly dropped text field (x = 50, y = 50, 115 x 16)
\* whose bottomLeft handle has been dragged by dx = -30, dy = 0 has width 145
\* and x = 20, with y = 50 and height 16 as before.
C12_BottomLeftDragWidens ==
    (/\ lastOp.op \in {"mouseMove", "touchMove"}
     /\ Len(gestures) = 1
     /\ gestures[1].role = "resize" /\ gestures[1].handle = "bottomLeft"
     /\ gestures[1].startFieldX = 50 /\ gestures[1].startFieldY = 50
     /\ gestures[1].startWidth = 115 /\ gestures[1].startHeight = 16
     /\ lastOp.a - gestures[1].startX = -30
     /\ lastOp.b - gestures[1].startY = 0)
      => LET f == buildModeFields[1]
         IN  f.width = 145 /\ f.x = 20 /\ f.y = 50 /\ f.height = 16

\* ---------------------------------------------------- claims: geometry
Within(a, b, d) == a - b <= d /\ b - a <= d

Whole(v) == v % Tenth = 0

\* C13: export followed by import gives x, y, width and height each within
\* one point of the original, and exactly the original when x, y, width,
\* height and the page height are whole numbers.
C13_GeometryRoundTrip ==
    [][lastOp'.op = "geometry" =>
          \A i \in DOMAIN buildModeFields :
             LET f == buildModeFields[i]
                 g == buildModeFields'[i]
             IN  /\ Within(g.x, f.x, Tenth) /\ Within(g.y, f.y, Tenth)
                 /\ Within(g.width, f.width, Tenth)
                 /\ Within(g.height, f.height, Tenth)
                 /\ (Whole(f.x) /\ Whole(f.y) /\ Whole(f.width)
                        /\ Whole(f.height) /\ Whole(lastOp'.a))
                       => /\ g.x = f.x /\ g.y = f.y
                          /\ g.width = f.width /\ g.height = f.height]_vars

\* C13 witness: a round trip of a record with fractional height, which came
\* back with a whole height and its y within a point of 50.2.
C13_Witness ==
    /\ lastOp.op = "geometry"
    /\ buildModeFields[1].height = 170 /\ buildModeFields[1].width = 1150
    /\ buildModeFields[1].y \in 492..512 /\ buildModeFields[1].y # 502

\* ------------------------------------------------------- claims: gestures
Contacts == (IF mouseDown THEN 1 ELSE 0) + touches

\* C2 (as claimed): whenever no contact is left (button up, no finger down),
\* every gesture has had its end transition: no move or end listener, no
\* click suppressor and no long-press timer remains, and no renderer is left
\* dragging or resizing.
C2_EveryGestureCleansUp ==
    Contacts = 0 =>
        /\ gestures = <<>>
        /\ clickSuppressors = 0
        /\ timers = {}
        /\ \A id \in Renderers : ~Flag(isDragging, id) /\ ~Flag(isResizing, id)

\* C3 (as claimed): while every installed gesture still has its contact, at
\* most one gesture has move listeners installed.
C3_OneGestureAtATime ==
    Len(gestures) <= Contacts => Len(gestures) <= 1

\* ------------------------------------------------------- claims: metadata
Tagged(title) == title # NoTitle /\ Head(title) = Prefix

Settled == docReady /\ pending = <<>> /\ pdfDoc # NoDoc

\* C4: the title written by a build-mode save is the prefix followed by the
\* serialization of the map M handed to onBuildSave; decoding that title
\* yields exactly M (same keys, same ordered lists); and once the exported
\* document has been loaded again, the extracted map is M.
C4_MetadataRoundTrip ==
    buildSaved.saved =>
        LET M == MapOf(buildSaved.fieldAssignmentsMap)
            title == buildSaved.pdf.title
        IN  /\ Head(title) = Prefix
            /\ Tail(title) = StringifyMap(buildSaved.fieldAssignmentsMap)
            /\ ExtractAssignments(title, NoAssignments) = [set |-> TRUE, map |-> M]
            /\ (Settled /\ pdfDoc = buildSaved.pdf /\ lastOp.op = "loadSettles")
                  => extractedFieldAssignments = [set |-> TRUE, map |-> M]

\* C4 witness: the exported document has been loaded again, and the map holds
\* a two-id list under a name with a quote in it.
C4_Witness ==
    /\ buildSaved.saved /\ Settled /\ pdfDoc = buildSaved.pdf
    /\ lastOp.op = "loadSettles"
    /\ extractedFieldAssignments.set
    /\ <<"a", Quote, "b">> \in DOMAIN extractedFieldAssignments.map
    /\ Len(extractedFieldAssignments.map[<<"a", Quote, "b">>]) = 2

\* C5 (as claimed): once the loads have settled on the document src names,
\* the effective assignment map is the one decoded from that document's title
\* when the title carries the prefix and parses, and the caller's
\* fieldAssignments when the title carries no prefix, in which case no
\* extracted map exists.
C5_EffectiveMapFromLoadedTitle ==
    (Settled /\ pdfDoc = src) =>
        LET title == pdfDoc.title
        IN  /\ (Tagged(title) /\ ParseMap(Tail(title)).ok)
                  => effectiveAssignments =
                        [set |-> TRUE, map |-> MapOf(ParseMap(Tail(title)).val)]
            /\ ~Tagged(title)
                  => /\ extractedFieldAssignments = NoAssignments
                     /\ effectiveAssignments = fieldAssignments

\* C6 (as claimed): once the loads have settled on the document src names
\* and its title carries the prefix but does not parse, the document is set,
\* docReady is true, no extracted map exists and the caller's map is the
\* effective one.
C6_UnparseableTitleMeansAbsent ==
    (pending = <<>> /\ pdfDoc = src /\ Tagged(pdfDoc.title)
       /\ ~ParseMap(Tail(pdfDoc.title)).ok)
      => /\ docReady
         /\ extractedFieldAssignments = NoAssignments
         /\ effectiveAssignments = fieldAssignments

\* ------------------------------------------------------ claims: registry
HasFloor(f) == f.width >= MinSize /\ f.height >= MinSize

\* C1 (as claimed): once a field has been resized through
\* resizeBuildModeField, its width and height are both >= 20 right after the
\* resize and after whatever registry operation comes next.
C1_ResizeFloorKept ==
    [][\A i \in DOMAIN buildModeFields' :
          /\ (lastOp'.op = "resize" /\ buildModeFields'[i].id = lastOp'.id)
                => HasFloor(buildModeFields'[i])
          /\ (lastOp.op = "resize" /\ buildModeFields'[i].id = lastOp.id)
                => HasFloor(buildModeFields'[i])]_vars

\* C7: whenever the seeding effect runs (after a mode change or a page load)
\* while the registry holds at least one record, the registry and the
\* selection are left exactly as they were.
C7_SeedingIdempotent ==
    [][(lastOp'.op \in {"modeChange", "pagesLoaded"} /\ Len(buildModeFields) > 0)
          => (buildModeFields' = buildModeFields /\ selectedField' = selectedField)]_vars

\* C7 witness: the effect has just run in build mode on a registry that holds
\* a record added in this session.
C7_Witness ==
    /\ lastOp.op = "modeChange" /\ mode = "build"
    /\ \E i \in DOMAIN buildModeFields : buildModeFields[i].origin = "new"

\* C8: delete(id) removes the records with that id and no other record (the
\* others stay, unchanged and in order); the selection becomes none if id was
\* selected and is unchanged otherwise.
C8_DeleteRemovesOnlyId ==
    [][lastOp'.op = "delete" =>
          LET id == lastOp'.id
              others == {i \in DOMAIN buildModeFields : buildModeFields[i].id # id}
          IN  /\ \A j \in DOMAIN buildModeFields' : buildModeFields'[j].id # id
              /\ Len(buildModeFields') = Cardinality(others)
              /\ \A i \in others :
                    buildModeFields'[Cardinality({k \in others : k <= i})]
                       = buildModeFields[i]
              /\ (selectedField = id => selectedField' = NoField)
              /\ (selectedField # id => selectedField' = selectedField)]_vars

\* C8 witness: the selected field has just been deleted, the selection is
\* none, and another record is still in the registry.
C8_Witness ==
    /\ lastOp.op = "delete" /\ lastOp.a = 1
    /\ selectedField = NoField
    /\ Len(buildModeFields) >= 1
    /\ lastOp.id \notin FieldIds(buildModeFields)

\* C9: move(id, x, y) on a known id stores max(0, x) and max(0, y) and changes
\* no other attribute of that record and no other record; on an unknown id the
\* registry is unchanged; the selection is unchanged in both cases.
C9_MoveClampsAndFrames ==
    [][lastOp'.op = "move" =>
          LET id == lastOp'.id
              x  == lastOp'.a
              y  == lastOp'.b
          IN  /\ DOMAIN buildModeFields' = DOMAIN buildModeFields
              /\ \A i \in DOMAIN buildModeFields :
                    IF buildModeFields[i].id = id
                    THEN /\ buildModeFields'[i].x = (IF x < 0 THEN 0 ELSE x)
                         /\ buildModeFields'[i].y = (IF y < 0 THEN 0 ELSE y)
                         /\ DOMAIN buildModeFields'[i] = DOMAIN buildModeFields[i]
                         /\ \A k \in DOMAIN buildModeFields[i] \ {"x", "y"} :
                               buildModeFields'[i][k] = buildModeFields[i][k]
                    ELSE buildModeFields'[i] = buildModeFields[i]
              /\ (id \notin FieldIds(buildModeFields)
                    => buildModeFields' = buildModeFields)
              /\ selectedField' = selectedField]_vars

\* C9 witness: a move to a negative x has just been stored as x = 0 on a
\* known record while another record is in the registry.
C9_Witness ==
    /\ lastOp.op = "move" /\ lastOp.a < 0
    /\ Len(buildModeFields) >= 2
    /\ \E i \in DOMAIN buildModeFields :
          buildModeFields[i].id = lastOp.id /\ buildModeFields[i].x = 0


\* ------------------------------------------------------- claims: update
\* C10 (as claimed): update(id, partial) deep-merges properties: every
\* property key of the stored record that the partial's properties object
\* does not name keeps its previous value.
C10_UpdateKeepsSiblingProperties ==
    [][(/\ lastOp'.op = "update"
        /\ lastOp'.id \in FieldIds(buildModeFields)
        /\ "properties" \in DOMAIN Partials[lastOp'.a]) =>
          LET old   == FindField(buildModeFields, lastOp'.id).properties
              new   == FindField(buildModeFields', lastOp'.id).properties
              named == DOMAIN Partials[lastOp'.a].properties
          IN  \A k \in DOMAIN old \ named :
                 k \in DOMAIN new /\ new[k] = old[k]]_vars

\* C10 (amended): update(id, partial) shallow-merges the partial into the
\* record: every top-level key the partial names takes the partial's value,
\* the properties sub-record as a whole included, and every other top-level
\* key keeps its value; sibling properties survive a properties panel change
\* because the panel's handlers pass the selected record's whole properties
\* with the one key changed.
C10_UpdateShallowMerges ==
    [][/\ (lastOp'.op = "update" /\ lastOp'.id \in FieldIds(buildModeFields)) =>
              LET old == FindField(buildModeFields, lastOp'.id)
                  new == FindField(buildModeFields', lastOp'.id)
                  partial == Partials[lastOp'.a]
              IN  /\ DOMAIN new = DOMAIN old \cup DOMAIN partial
                  /\ \A k \in DOMAIN partial : new[k] = partial[k]
                  /\ \A k \in DOMAIN old \ DOMAIN partial : new[k] = old[k]
       /\ lastOp'.op = "setProperty" =>
              LET old == FindField(buildModeFields, lastOp'.id).properties
                  new == FindField(buildModeFields', lastOp'.id).properties
              IN  \A k \in DOMAIN old \ {PropertyKeys[lastOp'.a]} :
                     k \in DOMAIN new /\ new[k] = old[k]]_vars

\* C10 witness: update with the partial {properties: {required: true}} has
\* just run on a known record, whose properties now hold that one key.
C10_Witness ==
    /\ lastOp.op = "update" /\ lastOp.a = 2
    /\ lastOp.id \in FieldIds(buildModeFields)
    /\ DOMAIN FindField(buildModeFields, lastOp.id).properties = {"required"}

\* ------------------------------------------------- claims: enforcement
\* The state effectiveState gives an input under the props of this render.
effectiveState(name) ==
    LET effective == effectiveAssignments
    IN  IF ~Truthy(activeParticipantId)
           \/ IsAssigned(effective, name, activeParticipantId)
        THEN FreshInput
        ELSE IF unassignedVisibility = "hidden"
             THEN [display |-> "none", disabled |-> FALSE]
             ELSE [display |-> "", disabled |-> TRUE]

\* C14: in edit mode, once the pages are rendered, each existing field's
\* input is editable when no participant is active, the field has no
\* assignment entry or the entry contains the participant; otherwise it is
\* hidden under the hidden policy and visible but disabled under readonly.
C14_InputsInEffectiveState ==
    (mode = "edit" /\ docReady /\ pagesReady) =>
        \A i \in DOMAIN pages.fields :
            /\ pages.fields[i].id \in DOMAIN inputs
            /\ LET input == inputs[pages.fields[i].id]
                   want == effectiveState(pages.fields[i].name)
               IN  /\ (input.display = "none") <=> (want.display = "none")
                   /\ (want.display # "none") => input.disabled = want.disabled

\* ---------------------------------------------------------- claims: progress
\* The names the effective map assigns to the active participant.
NamesAssignedTo(participant) ==
    {name \in DOMAIN effectiveAssignments.map :
        \E k \in DOMAIN effectiveAssignments.map[name] :
            effectiveAssignments.map[name][k] = participant}

\* The names of the fields of the document.
DocumentNames == {pages.fields[i].name : i \in DOMAIN pages.fields}

\* The value the editor shows for the field name: what the user entered,
\* else the field's default; the last field of a name decides.
CurrentValue(name) ==
    LET i == CHOOSE i \in DOMAIN pages.fields :
                 /\ pages.fields[i].name = name
                 /\ \A j \in DOMAIN pages.fields :
                       pages.fields[j].name = name => j <= i
        field == pages.fields[i]
    IN  IF field.value \notin {Undefined, <<>>} THEN field.value
        ELSE IF field.defaultValue \notin {Undefined, <<>>} THEN field.defaultValue
        ELSE <<>>

\* Non-empty, not only whitespace, and not the sentinel Off.
Filled(name) ==
    /\ name \in DocumentNames
    /\ \E k \in DOMAIN CurrentValue(name) : CurrentValue(name)[k] \notin {" ", "\n"}
    /\ CurrentValue(name) # <<"O", "f", "f">>

C16_ExportedLayerIsRegistry ==
    (lastSave.outcome = "delivered" /\ lastSave.mode = "build"
     /\ lastSave.rejected = {}) =>
        /\ Len(lastSave.layer) = Len(lastSave.registry)
        /\ \A k \in DOMAIN lastSave.layer :
              /\ lastSave.layer[k].origin = "created"
              /\ k \in DOMAIN lastSave.registry
              /\ lastSave.layer[k].name = lastSave.registry[k].name
              /\ lastSave.layer[k].type = CreatedType(lastSave.registry[k].type)

\* C17: an export that reached the document ends by delivering bytes to its
\* callback even when the library refuses to create or to write single
\* fields, and the delivered layer has a field for every record the library
\* did not refuse.
C17_FieldFailureDoesNotAbort ==
    (lastSave.outcome \in {"delivered", "threw"}) =>
        /\ lastSave.outcome = "delivered"
        /\ (lastSave.mode = "build" /\ Len(lastSave.registry) > 0) =>
              \A k \in DOMAIN lastSave.registry :
                  lastSave.registry[k].name \notin lastSave.rejected
                      => lastSave.registry[k].name \in LayerNames(lastSave.layer)

\* C18: at most one onSaveAs execution is in flight, isSaving is true while
\* one is, and isSaving is false only when none is.
C18_ExportsSerialized ==
    /\ Len(exports) <= 1
    /\ (Len(exports) > 0) => isSaving
    /\ ~isSaving => Len(exports) = 0

\* -------------------------------------------------------------- claims: load
\* The load of the current src has failed: src is a document that does not
\* load, and no load is in flight.
LoadFailed == ~src.loads /\ pending = <<>>

\* C19: once the load of the current src has failed, the editor renders
\* nothing and formFields is empty, whether the failed load was the first or
\* followed a document that had loaded.
C19_FailedLoadExposesNothing ==
    LoadFailed =>
        /\ ~(docReady /\ pagesReady)
        /\ DOMAIN getAllFieldsValue(pages) = {}

\* --------------------------------------------------------- claims: rendering
\* The render tasks of a page on a canvas that are in flight and not cancelled.
Live(page, canvas) ==
    {i \in DOMAIN renderTasks :
        /\ renderTasks[i].page = page
        /\ renderTasks[i].canvas = canvas
        /\ ~renderTasks[i].settled
        /\ ~renderTasks[i].cancelled}

\* C20: for every page, on the page canvas and on the thumbnail canvas, at
\* most one render task is in flight and not cancelled.
C20_OneLiveRenderPerPage ==
    \A page \in 1..PageCount, canvas \in {"main", "thumb"} :
        Cardinality(Live(page, canvas)) <= 1

\* ------------------------------------------------------ claims: resize frames
\* The geometry the frame at pointer p of resize gesture g is claimed to
\* give the field: each corner's width, height, x and y from the start values.
ClaimedFrame(g, p) ==
    LET dx == p[1] - g.startX
        dy == p[2] - g.startY
    IN  CASE g.handle = "bottomRight" ->
                 [width |-> g.startWidth + dx, height |-> g.startHeight + dy,
                  x |-> g.startFieldX, y |-> g.startFieldY]
          [] g.handle = "bottomLeft" ->
                 [width |-> g.startWidth - dx, height |-> g.startHeight + dy,
                  x |-> g.startFieldX + dx, y |-> g.startFieldY]
          [] g.handle = "topRight" ->
                 [width |-> g.startWidth + dx, height |-> g.startHeight - dy,
                  x |-> g.startFieldX, y |-> g.startFieldY + dy]
          [] g.handle = "topLeft" ->
                 [width |-> g.startWidth - dx, height |-> g.startHeight - dy,
                  x |-> g.startFieldX + dx, y |-> g.startFieldY + dy]

\* C21: a move frame of the one resize gesture in progress (zoom 1.0) gives
\* the field the claimed width, height, x and y when both sizes are at least
\* 20, and leaves the field as it was otherwise.
C21_ResizeFrame ==
    [][(/\ lastOp'.op \in {"mouseMove", "touchMove"}
        /\ Len(gestures) = 1
        /\ gestures[1].role = "resize"
        /\ gestures' = gestures)
       => LET frame == ClaimedFrame(gestures[1], <<lastOp'.a, lastOp'.b>>)
              f == buildModeFields'[1]
          IN  IF frame.width >= 20 /\ frame.height >= 20
              THEN /\ f.width = frame.width /\ f.height = frame.height
                   /\ f.x = frame.x /\ f.y = frame.y
              ELSE buildModeFields' = buildModeFields]_vars

\* ---------------------------------------------------------- claims: drag
\* The one gesture in progress is a drag whose field is still where the press
\* found it.
PressUnmoved ==
    /\ Len(gestures) = 1
    /\ gestures[1].role = "drag"
    /\ buildModeFields[1].x = gestures[1].startFieldX
    /\ buildModeFields[1].y = gestures[1].startFieldY

\* The pointer at p is within the threshold of the start of gesture g.
WithinThreshold(g, p) ==
    /\ p[1] - g.startX <= 10 /\ g.startX - p[1] <= 10
    /\ p[2] - g.startY <= 10 /\ g.startY - p[2] <= 10

\* C22: for a mouse or touch press on a field, a move frame within the
\* threshold of the start commits no move, and a release (followed by the
\* browser's click, for the mouse) of a press that never left the threshold
\* changes no coordinates and selects the field.
C22_NoMoveBeforeThreshold ==
    [][/\ (/\ PressUnmoved
           /\ lastOp'.op \in {"mouseMove", "touchMove"}
           /\ WithinThreshold(gestures[1], <<lastOp'.a, lastOp'.b>>))
          => buildModeFields' = buildModeFields
       /\ (/\ PressUnmoved
           /\ \/ lastOp'.op = "touchEnd"
              \/ lastOp'.op = "mouseUp" /\ lastOp'.a = 1)
          => /\ buildModeFields' = buildModeFields
             /\ selectedField' = gestures[1].id]_vars

\* ---------------------------------------------------- claims: long press
\* A touch drag on the field is installed, its contact is down and it has not
\* passed the drag threshold.
HeldUnmoved(id) ==
    /\ touches > 0
    /\ \E k \in DOMAIN gestures :
          /\ gestures[k].input = "touch" /\ gestures[k].role = "drag"
          /\ gestures[k].id = id /\ ~gestures[k].hasMoved

\* C23: a long-press timer that fires a selection does so while a touch on
\* its field is still held and has not moved: no timer fires after its touch
\* has moved or been released.
C23_TimerFiresOnlyWhileHeld ==
    [][lastOp'.op = "timer" => HeldUnmoved(lastOp'.id)]_vars

\* ------------------------------------------------------------ claims: pinch
\* C24: the zoom index changes only at a touch move with exactly two contacts
\* whose number has not changed since the reference distance was recorded, by
\* exactly one step in the direction of the change of distance, and only when
\* the distance differs from that reference by more than 30 px.
C24_PinchStepsFromFreshReference ==
    [][zoomLevel' # zoomLevel =>
          /\ lastOp'.op = "pinchMove"
          /\ touches = 2
          /\ ~contactsChanged
          /\ Abs(lastOp'.a - lastPinchDistance) > PinchThreshold
          /\ zoomLevel' = IF lastOp'.a > lastPinchDistance
                          THEN zoomLevel + 1 ELSE zoomLevel - 1
          /\ zoomLevel' \in 1..Len(zoomLevels)]_vars

\* --------------------------------------------------------- claims: identity
\* C25: after every add, duplicate, seed and delete, no two records of the
\* registry share an id, and a record that enters the registry does not get
\* an id that a deleted record had.
C25_IdsUniqueForSession ==
    [][/\ \A i, j \in DOMAIN buildModeFields' :
             i # j => buildModeFields'[i].id # buildModeFields'[j].id
       /\ \A id \in FieldIds(buildModeFields') \ FieldIds(buildModeFields) :
             id \notin usedIds]_vars

\* -------------------------------------------------------- claims: selection
\* C26: the selection is none or the id of a record that is in the registry.
C26_SelectionInRegistry ==
    selectedField = NoField \/ selectedField \in FieldIds(buildModeFields)

\* ----------------------------------------------------- claims: save ends
\* C27: whenever a save is in progress (isSaving is true), isSaving is
\* eventually false again, whatever the outcome of the save's steps.
C27_SavingEventuallyReset == isSaving ~> ~isSaving

\* --------------------------------------------------- claims: latest src
\* C28: once every load in flight has settled and the most recently requested
\* src is a document that loads, the editor's document is that src, whatever
\* the order in which the loads completed.
C28_LatestSrcWins ==
    (pending = <<>> /\ src.loads) => pdfDoc = src

\* ------------------------------------------------------ claims: view scale
\* The lowest index (from 1) of the zoom level nearest to divWidth /
\* maxPageWidth.
NearestLevel(divWidth, maxPageWidth) ==
    LET d(i) == Abs(100 * divWidth - zoomLevels[i] * maxPageWidth)
    IN  CHOOSE i \in DOMAIN zoomLevels :
            /\ \A j \in DOMAIN zoomLevels : d(i) <= d(j)
            /\ \A j \in DOMAIN zoomLevels : d(j) = d(i) => i <= j

\* C29: a window resize with container width W > 0 and page width P > 0 sets
\* the zoom index to the lowest index whose zoom level is nearest to W / P,
\* the first level included, and the index stays within the list.
C29_ResizePicksNearestLevel ==
    [][(lastOp'.op = "windowResize" /\ lastOp'.a > 0 /\ lastOp'.b > 0) =>
          /\ zoomLevel' = NearestLevel(lastOp'.a, lastOp'.b)
          /\ zoomLevel' \in DOMAIN zoomLevels]_vars

\* ----------------------------------------------------------- claims: seeding
\* C30: a record with origin = existing that enters the registry has not been
\* in it before: the fields of the loaded document are imported once, and one
\* the user deleted does not come back, whatever deletes and mode switches
\* follow.
C30_ExistingImportedOnce ==
    [][\A i \in DOMAIN buildModeFields' :
          (/\ buildModeFields'[i].origin = "existing"
           /\ buildModeFields'[i].id \notin FieldIds(buildModeFields))
             => buildModeFields'[i].id \notin usedIds]_vars

====
